---- MODULE Spec2Model ----
(***************************************************************************)
(* Model of the diagnostic profiling engine of datacraft-studio:           *)
(*   backend/data_type_detector.py  (is_likely_date_column,                *)
(*                                   detect_data_type)                     *)
(*   backend/celery_worker.py       (generate_comprehensive_stats,         *)
(*                                   generate_diagnostic_report,           *)
(*                                   get_temporal_profile,                 *)
(*                                   get_mnar_indicators,                  *)
(*                                   get_statistical_profile, route_task,  *)
(*                                   perform_imputation,                   *)
(*                                   perform_standardization,              *)
(*                                   perform_delete_column,                *)
(*                                   perform_dataset_cleaning_task)        *)
(*   backend/main.py                (get_next_version_path, upload_dataset,*)
(*                                   delete_dataset, submit_task,          *)
(*                                   get_dataset_diagnostics,              *)
(*                                   clean_dataset)                        *)
(*                                                                         *)
(* A CSV cell is a record [k, v]: k is the class of the cell's text and v  *)
(* tells apart the different texts of one class.                           *)
(*   "na"      one of the missing-value tokens ('', NA, NULL, NaN, ...)    *)
(*   "int"     a number with no fractional part, of value v   (v < 1000)   *)
(*   "frac"    a number with a fractional part, of value v + 1/2           *)
(*   "inf"     the text inf, which pandas reads as the float infinity      *)
(*   "date"    a date such as 2024-01-07: matches DATE_REGEX and parses;   *)
(*             date v is day v of the model, written year first            *)
(*   "baddate" a text such as 2024-13-45: matches DATE_REGEX, parses not   *)
(*   "str"     any other text: matches not, parses not                     *)
(*   "bool"    the text True (v = 1) or False (v = 0), in the files given  *)
(*             to route_task alone                                         *)
(***************************************************************************)
EXTENDS Integers, Sequences, FiniteSets, TLC

\* ------------------------------------------------------------------ bounds
MaxHead == 11           \* longest leading run of a generated column
MaxStray == 2           \* longest trailing run of a generated column
MaxFileStray == 1       \* longest trailing run of a column of a generated file
MaxCols == 2            \* most columns of a generated file
MaxCatLen == 7          \* longest column of texts given to the categorical profile
MaxProfileRows == 4     \* most rows of a file of numeric columns given to route_task
MaxTimeRows == 3        \* most rows of a file with a time column given to route_task

\* ------------------------------------------------- constants of the program
SampleSize == 1000      \* sample = series_cleaned.head(1000)
DateSampleSize == 20    \* sample = series.dropna().head(20)
NumericPct == 90        \* ... / len(sample) > 0.90
IdentifierPct == 95     \* ... > 0.95
DateMatchPct == 75      \* (match_count / len(sample)) > 0.75
CategoricalPct == 50    \* unique_ratio < 0.5
UniqueFloor == 50       \* unique_count < 50
TopCategories == 5      \* value_counts.head(5)
CorrThresholdSq == 9    \* abs(corr) > 0.3, squared and in hundredths

\* ------------------------------------------------------------------- cells
Kinds == {"na", "int", "frac", "inf", "date", "baddate", "str"}
NumericKinds == {"int", "frac", "inf"}

Min(a, b) == IF a < b THEN a ELSE b

\* series.isnull(): the cell is one of the na_values of read_csv
IsNull(c) == c.k = "na"

\* pd.to_numeric(errors='coerce') gives a number (not NaN) for the cell
IsNumber(c) == c.k \in NumericKinds

\* the number the cell coerces to, doubled; -1 stands for infinity
NumKey(c) == IF c.k = "inf" THEN -1 ELSE IF c.k = "int" THEN 2 * c.v ELSE 2 * c.v + 1

\* DATE_REGEX matches the text of the cell
MatchesDateRegex(c) == c.k \in {"date", "baddate"}

\* pd.to_datetime parses the text of the cell (a number below 1000 does not
\* look like a date to pandas, and every number of this model is below 1000)
ParsesAsDate(c) == c.k = "date"

\* --------------------------------------------------------- pandas helpers
\* series.dropna()
DropNa(s) == SelectSeq(s, LAMBDA c : ~IsNull(c))

\* series.head(n)
HeadN(s, n) == SubSeq(s, 1, Min(n, Len(s)))

\* series.nunique(): distinct non-missing values
NUnique(s) == Cardinality({s[i] : i \in {j \in 1..Len(s) : ~IsNull(s[j])}})

\* dtype pandas.read_csv gives a column: object as soon as one cell that is
\* not missing is not a number, a numeric dtype otherwise
IsObjectDtype(s) == \E i \in 1..Len(s) : ~IsNull(s[i]) /\ ~IsNumber(s[i])

\* --------------------------------------------------- data_type_detector.py
is_likely_date_column(series) ==
    IF ~IsObjectDtype(series) THEN FALSE
    ELSE LET sample == HeadN(DropNa(series), DateSampleSize)
         IN  IF Len(sample) = 0 THEN FALSE
             ELSE 100 * Len(SelectSeq(sample, MatchesDateRegex)) > DateMatchPct * Len(sample)

\* NumericBranch with the unique ratio taken over the whole sample, the
\* values that did not coerce included
NumericBranchWholeSample(sample) ==
    LET nums == SelectSeq(sample, IsNumber)
    IN  IF \E i \in 1..Len(nums) : nums[i].k = "inf"
        THEN "float"
        ELSE IF \A i \in 1..Len(nums) : nums[i].k = "int"
             THEN IF 100 * Cardinality({NumKey(nums[i]) : i \in 1..Len(nums)})
                         > IdentifierPct * Len(sample)
                  THEN "identifier"
                  ELSE "integer"
             ELSE "float"

\* the numeric branch of detect_data_type, entered once the 0.90 test passed
NumericBranch(sample) ==
    LET nums == SelectSeq(sample, IsNumber)
    IN  IF \E i \in 1..Len(nums) : nums[i].k = "inf"
        THEN "float"             \* astype(int) raises, caught: 'float'
        ELSE IF \A i \in 1..Len(nums) : nums[i].k = "int"
             THEN IF 100 * Cardinality({NumKey(nums[i]) : i \in 1..Len(nums)})
                         > IdentifierPct * Len(nums)
                  THEN "identifier"
                  ELSE "integer"
             ELSE "float"

\* the fallback with the categorical test tried before the identifier test
FallbackBranchCategoricalFirst(series_cleaned) ==
    LET unique_count == NUnique(series_cleaned)
        total_count == Len(series_cleaned)
    IN  IF 100 * unique_count < CategoricalPct * total_count
           \/ unique_count < UniqueFloor
        THEN "categorical"
        ELSE IF 100 * unique_count > IdentifierPct * total_count THEN "identifier"
             ELSE "text"

\* the fallback of detect_data_type
FallbackBranch(series_cleaned) ==
    LET unique_count == NUnique(series_cleaned)
        total_count == Len(series_cleaned)
    IN  IF 100 * unique_count > IdentifierPct * total_count THEN "identifier"
        ELSE IF 100 * unique_count < CategoricalPct * total_count
                \/ unique_count < UniqueFloor
             THEN "categorical"
             ELSE "text"

\* detect_data_type with a date accepted once more than 4 in 5 of the
\* sample parse
detect_data_type_parse_rate(series) ==
    LET series_cleaned == DropNa(series)
        sample == HeadN(series_cleaned, SampleSize)
    IN  IF Len(series_cleaned) = 0 THEN "empty"
        ELSE IF 100 * Len(SelectSeq(sample, IsNumber)) > NumericPct * Len(sample)
             THEN NumericBranch(sample)
             ELSE IF is_likely_date_column(series_cleaned)
                     /\ 5 * Len(SelectSeq(sample, ParsesAsDate)) > 4 * Len(sample)
                  THEN "date"
                  ELSE FallbackBranch(series_cleaned)

\* detect_data_type without the except clause of the date branch: a sample
\* that passed the pattern test and does not parse ends the call
detect_data_type_uncaught(series) ==
    LET series_cleaned == DropNa(series)
        sample == HeadN(series_cleaned, SampleSize)
    IN  IF Len(series_cleaned) = 0 THEN "empty"
        ELSE IF 100 * Len(SelectSeq(sample, IsNumber)) > NumericPct * Len(sample)
             THEN NumericBranch(sample)
             ELSE IF is_likely_date_column(series_cleaned)
                  THEN IF \A i \in 1..Len(sample) : ParsesAsDate(sample[i])
                       THEN "date" ELSE "raised"
                  ELSE FallbackBranch(series_cleaned)

detect_data_type(series) ==
    LET series_cleaned == DropNa(series)
        sample == HeadN(series_cleaned, SampleSize)
    IN  IF Len(series_cleaned) = 0 THEN "empty"
        ELSE IF 100 * Len(SelectSeq(sample, IsNumber)) > NumericPct * Len(sample)
             THEN NumericBranch(sample)
             ELSE IF is_likely_date_column(series_cleaned)
                     /\ \A i \in 1..Len(sample) : ParsesAsDate(sample[i])
                  THEN "date"
                  ELSE FallbackBranch(series_cleaned)

\* ------------------------------------------------------- generated columns
\* a run of len cells of class k that cycles through d different texts
Run(k, len, d) ==
    [j \in 1..len |-> [k |-> k, v |-> IF k \in {"na", "inf"} THEN 0 ELSE (j - 1) % d]]

\* lengths of the leading run: short ones, one long enough for 50 different
\* values that repeat, and one that fills the 1000-cell sample
HeadLens == (0..MaxHead) \cup {UniqueFloor + 3, SampleSize}

\* how many different texts a leading run cycles through; 0: all different
DistinctChoices == {0, 1, 2, 3, UniqueFloor}

\* the parameters <<kh, a, dc, kt, b>> of the generated columns: a leading run
\* of a cells of class kh, then b equal cells of another class kt
ColumnShapes ==
    { t \in Kinds \X HeadLens \X DistinctChoices \X Kinds \X (0..MaxStray) :
        /\ t[3] <= t[2]
        /\ (t[1] \in {"na", "inf"} => t[3] = 1)
        /\ (t[2] = 0 => t[1] = "na" /\ t[3] = 0)
        /\ (t[2] > 0 /\ t[1] \notin {"na", "inf"} /\ t[2] <= 3 => t[3] # t[2])
        /\ (t[5] = 0 => t[4] = "na")
        /\ (t[5] > 0 => t[4] # t[1]) }

ShapeCells(t) ==
    Run(t[1], t[2], IF t[3] = 0 THEN t[2] + 1 ELSE t[3]) \o Run(t[4], t[5], 1)

ColumnCells == { ShapeCells(t) : t \in ColumnShapes }

\* ------------------------------------------------------------------ files
\* header names of the generated files, by position
ColumnNames == <<"id", "amount", "category", "event_time">>

\* os.path.basename(file_path) of the one dataset of the model
FileName == "data.csv"

\* what a path of the public directory holds: nothing, a file of zero bytes,
\* a file that is not UTF-8 text, or CSV text with a header line
NoFile == [kind |-> "none", columns |-> <<>>]
EmptyFile == [kind |-> "empty", columns |-> <<>>]
GarbageFile == [kind |-> "garbage", columns |-> <<>>]
CsvFile(cellSeqs) ==
    [kind |-> "csv",
     columns |-> [i \in 1..Len(cellSeqs) |->
                    [name |-> ColumnNames[i], cells |-> cellSeqs[i]]]]

\* classes of the columns that accompany the generated column of a file
CompanionKinds == {"int", "str"}

\* the generated columns that stand in files: those shorter than the sample
\* of detect_data_type, with a trailing run of up to MaxFileStray cells
FileColumnCells ==
    { ShapeCells(t) : t \in { u \in ColumnShapes : u[2] < SampleSize /\ u[5] <= MaxFileStray } }

\* the generated files: one generated column at position p among ncols
\* columns, the others a run of two alternating texts of one class
CsvFiles ==
    { CsvFile([i \in 1..ncols |->
                  IF i = p THEN cells ELSE Run(kc, Len(cells), 2)]) :
        <<cells, ncols, p, kc>> \in
          { t \in FileColumnCells \X (1..MaxCols) \X (1..MaxCols) \X CompanionKinds :
              /\ t[3] <= t[2]
              /\ (t[2] = 1 => t[4] = "int") } }

Files == CsvFiles \cup {EmptyFile, GarbageFile}

\* pd.read_csv raises: FileNotFoundError, EmptyDataError ("No columns to
\* parse from file") or UnicodeDecodeError
ReadCsvRaises(file) == file.kind # "csv"

\* the DataFrame pd.read_csv returns: the columns, in header order
ReadCsv(file) == file.columns

\* df.shape[0]
RowCount(df) == IF Len(df) = 0 THEN 0 ELSE Len(df[1].cells)

\* df.empty
DfEmpty(df) == Len(df) = 0 \/ RowCount(df) = 0

\* ------------------------------------------------------------- arithmetic
\* round(a / b) to the nearest integer, a tie to the even one
RoundDiv(a, b) ==
    LET q == a \div b
        r == a % b
    IN  IF 2 * r < b THEN q
        ELSE IF 2 * r > b THEN q + 1
        ELSE IF q % 2 = 0 THEN q ELSE q + 1

\* round(100 * a / b, 2), in hundredths
Pct2(a, b) == RoundDiv(10000 * a, b)

\* round(a / b, 4), in ten-thousandths
Ratio4(a, b) == RoundDiv(10000 * a, b)

MaxOf(S) == CHOOSE x \in S : \A y \in S : y <= x
MinOf(S) == CHOOSE x \in S : \A y \in S : x <= y

\* the float of a numeric cell, doubled; infinity is above every number
InfDbl == 4 * SampleSize
Dbl(c) == IF c.k = "inf" THEN InfDbl ELSE IF c.k = "int" THEN 2 * c.v ELSE 2 * c.v + 1

\* int(series.isnull().sum())
MissingCount(s) == Len(SelectSeq(s, IsNull))

\* ----------------------------------- generate_diagnostic_report: profiles
\* the numeric branch works on clean_series itself: quantile(), mean() and
\* the comparisons raise TypeError on a column of object dtype, whose cells
\* are strings
ProfileRaises(series, data_type) ==
    /\ data_type \in {"integer", "float"}
    /\ Len(DropNa(series)) > 0
    /\ IsObjectDtype(series)

NoProfile == [x \in {} |-> 0]

\* min and max are held doubled; skewness and kurtosis are held as "number"
\* or "None"
\* Series.std() with ddof = 1: not a number for a single value, and for a
\* series holding inf (inf - inf); round(float(nan), 2) stays nan
StdDev(clean_series) ==
    IF Len(clean_series) < 2 \/ \E i \in 1..Len(clean_series) : clean_series[i].k = "inf"
    THEN "NaN" ELSE "number"

\* Series.skew() / Series.kurtosis(): not a number below 3 / 4 values and
\* for a series holding inf; `least` is that number of values
Moment(clean_series, least) ==
    IF NUnique(clean_series) > 2
    THEN IF Len(clean_series) < least
            \/ \E i \in 1..Len(clean_series) : clean_series[i].k = "inf"
         THEN "NaN" ELSE "number"
    ELSE "None"

\* Series.mean(): inf as soon as one value is inf
Mean(clean_series) ==
    IF \E i \in 1..Len(clean_series) : clean_series[i].k = "inf"
    THEN "inf" ELSE "number"

\* Series.median(): inf when the upper middle value of the sorted series is
Median(clean_series) ==
    LET n == Len(clean_series)
        infs == Len(SelectSeq(clean_series, LAMBDA c : c.k = "inf"))
    IN  IF infs > 0 /\ infs >= n - (n \div 2) THEN "inf" ELSE "number"

numeric_profile(clean_series) ==
    LET vals == {Dbl(clean_series[i]) : i \in 1..Len(clean_series)}
    IN  [mean |-> Mean(clean_series), median |-> Median(clean_series),
         std_dev |-> StdDev(clean_series),
         min |-> MinOf(vals), max |-> MaxOf(vals),
         skewness |-> Moment(clean_series, 3),
         kurtosis |-> Moment(clean_series, 4)]

categorical_profile(clean_series) ==
    LET values == {clean_series[i] : i \in 1..Len(clean_series)}
        count(x) == Cardinality({i \in 1..Len(clean_series) : clean_series[i] = x})
    IN  [most_frequent_category_percentage |->
            Pct2(MaxOf({count(x) : x \in values}), Len(clean_series))]

datetime_profile(datetime_series) ==
    LET vals == {datetime_series[i].v : i \in 1..Len(datetime_series)}
    IN  [min_date |-> MinOf(vals), max_date |-> MaxOf(vals)]

\* (clean_series == '').sum(): the empty text is one of the na_values
text_profile(clean_series) ==
    [empty_string_count |-> Len(SelectSeq(clean_series, LAMBDA c : c.k = "na"))]

\* ColumnProfile with the test of generate_comprehensive_stats, which counts
\* identifier among the numeric types
ColumnProfileIdentifierNumeric(series, data_type) ==
    LET clean_series == DropNa(series)
    IN  IF Len(clean_series) = 0 THEN NoProfile
        ELSE IF data_type \in {"integer", "float", "identifier"}
             THEN "numeric_profile" :> numeric_profile(clean_series)
        ELSE IF data_type = "categorical"
             THEN "categorical_profile" :> categorical_profile(clean_series)
        ELSE IF data_type = "date"
             THEN "datetime_profile" :> datetime_profile(clean_series)
        ELSE IF data_type = "text"
             THEN "text_profile" :> text_profile(clean_series)
        ELSE NoProfile

\* ColumnProfile with the text branch taken for categorical columns as well
ColumnProfileTextForCategorical(series, data_type) ==
    LET clean_series == DropNa(series)
    IN  IF Len(clean_series) = 0 THEN NoProfile
        ELSE IF data_type \in {"integer", "float"}
             THEN "numeric_profile" :> numeric_profile(clean_series)
        ELSE IF data_type = "date"
             THEN "datetime_profile" :> datetime_profile(clean_series)
        ELSE IF data_type \in {"text", "categorical"}
             THEN "text_profile" :> text_profile(clean_series)
        ELSE NoProfile

\* the if / elif chain of the column loop: the key it adds to col_diag
ColumnProfile(series, data_type) ==
    LET clean_series == DropNa(series)
    IN  IF Len(clean_series) = 0 THEN NoProfile
        ELSE IF data_type \in {"integer", "float"}
             THEN "numeric_profile" :> numeric_profile(clean_series)
        ELSE IF data_type = "categorical"
             THEN "categorical_profile" :> categorical_profile(clean_series)
        ELSE IF data_type = "date"
             THEN LET datetime_series == SelectSeq(clean_series, ParsesAsDate)
                  IN  IF Len(datetime_series) = 0 THEN NoProfile
                      ELSE "datetime_profile" :> datetime_profile(datetime_series)
        ELSE IF data_type = "text"
             THEN "text_profile" :> text_profile(clean_series)
        ELSE NoProfile

\* ColDiagBase with unique_ratio taken over the non-missing cells
ColDiagBaseCleanDenominator(header, series, rows) ==
    LET unique_count == NUnique(series)
        clean == Len(DropNa(series))
    IN  [column_name |-> header,
         data_type |-> detect_data_type(series),
         missing_count |-> MissingCount(series),
         missing_percentage |-> Pct2(MissingCount(series), Len(series)),
         unique_count |-> unique_count,
         unique_ratio |-> IF clean # 0 THEN Ratio4(unique_count, clean) ELSE 0,
         constant_flag |-> unique_count = 1]

\* the dictionary col_diag of one column, before the profile is added
ColDiagBase(header, series, rows) ==
    LET unique_count == NUnique(series)
    IN  [column_name |-> header,
         data_type |-> detect_data_type(series),
         missing_count |-> MissingCount(series),
         missing_percentage |-> Pct2(MissingCount(series), Len(series)),
         unique_count |-> unique_count,
         unique_ratio |-> IF rows # 0 THEN Ratio4(unique_count, rows) ELSE 0,
         constant_flag |-> unique_count = 1]

\* ColDiag with the two analyzers of get_statistical_profile run as well
ColDiagWithAnalyzers(header, series, rows) ==
    LET base == ColDiagBase(header, series, rows)
    IN  base @@ ColumnProfile(series, base.data_type)
             @@ ("mnar_indicators" :> NoProfile) @@ ("is_time_series" :> FALSE)

ColDiag(header, series, rows) ==
    LET base == ColDiagBase(header, series, rows)
    IN  base @@ ColumnProfile(series, base.data_type)

\* the loop over df.columns raises in some column
ColumnLoopRaises(df) ==
    \E i \in 1..Len(df) : ProfileRaises(df[i].cells, detect_data_type(df[i].cells))

\* ------------------------------------ generate_diagnostic_report: summary
DuplicateRowCount(df) ==
    RowCount(df) - Cardinality({ [c \in 1..Len(df) |-> df[c].cells[i]] :
                                   i \in 1..RowCount(df) })

TotalMissingCells(df) ==
    LET RECURSIVE sum(_)
        sum(c) == IF c = 0 THEN 0 ELSE MissingCount(df[c].cells) + sum(c - 1)
    IN  sum(Len(df))

RowsGt50PctNulls(df) ==
    Cardinality({ i \in 1..RowCount(df) :
        2 * Cardinality({c \in 1..Len(df) : IsNull(df[c].cells[i])}) > Len(df) })

DatasetSummary(df) ==
    LET rows == RowCount(df)
        columns == Len(df)
    IN  [row_count |-> rows,
         column_count |-> columns,
         duplicate_row_count |-> DuplicateRowCount(df),
         total_missing_cells |-> TotalMissingCells(df),
         overall_missing_percentage |->
            IF rows * columns > 0 THEN Pct2(TotalMissingCells(df), rows * columns) ELSE 0,
         max_missing_column_percentage |->
            MaxOf({Pct2(MissingCount(df[c].cells), rows) : c \in 1..columns}),
         rows_gt_50pct_nulls |-> RowsGt50PctNulls(df)]

\* ColumnDiagnostics with the columns that have no value left out
ColumnDiagnosticsSkipEmpty(df) ==
    LET kept == SelectSeq(df, LAMBDA col : Len(DropNa(col.cells)) > 0)
    IN  [i \in 1..Len(kept) |-> ColDiag(kept[i].name, kept[i].cells, RowCount(df))]

ColumnDiagnostics(df) ==
    [i \in 1..Len(df) |-> ColDiag(df[i].name, df[i].cells, RowCount(df))]

DiagnosticReport(df) ==
    [filename |-> FileName,
     dataset_summary |-> DatasetSummary(df),
     column_diagnostics |-> ColumnDiagnostics(df)]

\* what one run of the task does: how it ends ("returned" or "raised"), the
\* value it returns, what it does to the key diagnostics:<file_name>, and the
\* file it read
EmptyResult == [status |-> "ERROR", message |-> "Dataset is empty."]
NoValue == [status |-> "none"]

generate_diagnostic_report(file) ==
    IF ReadCsvRaises(file)
    THEN [outcome |-> "raised", value |-> NoValue, cache |-> "keep", input |-> file]
    ELSE LET df == ReadCsv(file)
         IN  IF DfEmpty(df)
             THEN [outcome |-> "returned", value |-> EmptyResult, cache |-> "delete",
                   input |-> file]
             ELSE IF ColumnLoopRaises(df)
                  THEN [outcome |-> "raised", value |-> NoValue, cache |-> "keep",
                        input |-> file]
                  ELSE [outcome |-> "returned", value |-> DiagnosticReport(df),
                        cache |-> "set", input |-> file]

\* ------------------------------------------- generate_comprehensive_stats
\* round(clean_series.mean(), 2) raises TypeError on a column of strings
StatsLoopRaises(df) ==
    \E i \in 1..Len(df) :
        /\ detect_data_type(df[i].cells) \in {"integer", "float"}
        /\ Len(DropNa(df[i].cells)) > 0
        /\ IsObjectDtype(df[i].cells)

ColumnStat(header, series) ==
    [column |-> header,
     dataType |-> detect_data_type(series),
     nullCount |-> MissingCount(series),
     uniqueValues |-> NUnique(series),
     totalValues |-> Len(DropNa(series))]

ComprehensiveResult(df) ==
    LET rows == RowCount(df)
        columns == Len(df)
        total_cells == rows * columns
        missing_cells == TotalMissingCells(df)
        duplicate_rows == DuplicateRowCount(df)
        \* quality_score = 100 - missing_pct - duplicate_pct, times total_cells
        quality == 100 * (total_cells - missing_cells - duplicate_rows * columns)
        numeric == {i \in 1..columns :
                      detect_data_type(df[i].cells) \in {"integer", "float", "identifier"}}
    IN  [filename |-> FileName,
         rows |-> rows, columns |-> columns, totalCells |-> total_cells,
         status |-> IF quality > 90 * total_cells THEN "CLEANED"
                    ELSE IF quality > 60 * total_cells THEN "CLEANING" ELSE "RAW",
         qualityScore |-> IF quality < 0 THEN 0 ELSE RoundDiv(quality, total_cells),
         missing_pct |-> RoundDiv(100 * missing_cells, total_cells),
         duplicates_pct |-> RoundDiv(100 * duplicate_rows, rows),
         overallNullCount |-> missing_cells,
         columnStats |-> [i \in 1..columns |-> ColumnStat(df[i].name, df[i].cells)],
         numericColumnCount |-> Cardinality(numeric),
         textColumnCount |-> columns - Cardinality(numeric)]

generate_comprehensive_stats(file) ==
    IF ReadCsvRaises(file)
    THEN [outcome |-> "raised", value |-> NoValue, cache |-> "keep"]
    ELSE LET df == ReadCsv(file)
         IN  IF DfEmpty(df)
             THEN [outcome |-> "returned", value |-> NoValue, cache |-> "delete"]
             ELSE IF StatsLoopRaises(df)
                  THEN [outcome |-> "raised", value |-> NoValue, cache |-> "keep"]
                  ELSE [outcome |-> "returned", value |-> ComprehensiveResult(df),
                        cache |-> "set"]

\* json.dumps(report, cls=NumpyJSONEncoder): numbers stay numbers, the two
\* Timestamps of a datetime_profile become their isoformat() strings
IsoFormat(d) == [iso |-> d]

JsonDumps(report) ==
    [report EXCEPT !.column_diagnostics =
        [i \in 1..Len(report.column_diagnostics) |->
            LET cd == report.column_diagnostics[i]
            IN  IF "datetime_profile" \in DOMAIN cd
                THEN [cd EXCEPT !["datetime_profile"] =
                        [min_date |-> IsoFormat(@.min_date),
                         max_date |-> IsoFormat(@.max_date)]]
                ELSE cd]]

\* ---------------------------------------------------------------- state
\* disk         what the path of the dataset holds
\* cache_diag   the value of the key diagnostics:<name> of the cache
\* cache_stats  the value of the key statistics:<name> of the cache
\* diag_pending, stats_pending   queued runs of the two worker tasks
\* result       how the last run of generate_diagnostic_report ended, and
\*              the file it read
\* series, detected   a column and the type detect_data_type gave it
\* diag_read, stats_read   the frame a running worker task has read and not
\*              yet reported on
\* response     the answer to the last GET /api/dataset/{name}/diagnostics
\* public       the paths of the public directory that hold a file, each with
\*              the upload whose bytes it holds
\* uploads      where each request of upload_dataset stands
VARIABLES disk, cache_diag, cache_stats, diag_pending, stats_pending, result,
          series, detected, categorical, task,
          diag_read, stats_read, response, public, uploads

racing == <<diag_read, stats_read, response, public, uploads>>

vars == <<disk, cache_diag, cache_stats, diag_pending, stats_pending, result,
          series, detected, categorical, task, racing>>

\* a function of the program that the specification at hand does not call
NoRun == [outcome |-> "unused"]

\* a task sent to route_task and not run yet
TaskPending == [status |-> "PENDING"]

NoEntry == [status |-> "absent"]

\* no worker task between its read and its report, no request made
RacingUnused ==
    /\ diag_read = NoRun
    /\ stats_read = NoRun
    /\ response = NoRun
    /\ public = {}
    /\ uploads = <<>>
Pending == [outcome |-> "pending", value |-> NoValue, cache |-> "keep", input |-> NoFile]

\* -------------------------------------------- the worker on an uploaded file
\* upload_dataset has written the file and queued both tasks
Init ==
    /\ disk \in Files
    /\ cache_diag = NoEntry
    /\ cache_stats = NoEntry
    /\ diag_pending = 1
    /\ stats_pending = 1
    /\ result = Pending
    /\ series = <<>>
    /\ detected = "unused"
    /\ categorical = NoRun
    /\ task = NoRun
    /\ RacingUnused

GenerateDiagnosticReport ==
    /\ diag_pending > 0
    /\ LET r == generate_diagnostic_report(disk)
       IN  /\ result' = r
           /\ cache_diag' = IF r.cache = "set" THEN JsonDumps(r.value)
                            ELSE IF r.cache = "delete" THEN NoEntry
                            ELSE cache_diag
    /\ diag_pending' = diag_pending - 1
    /\ UNCHANGED <<disk, cache_stats, stats_pending, series, detected, categorical, task, racing>>

GenerateComprehensiveStats ==
    /\ stats_pending > 0
    /\ LET r == generate_comprehensive_stats(disk)
       IN  cache_stats' = IF r.cache = "set" THEN r.value
                          ELSE IF r.cache = "delete" THEN NoEntry
                          ELSE cache_stats
    /\ stats_pending' = stats_pending - 1
    /\ UNCHANGED <<disk, cache_diag, diag_pending, result, series, detected, categorical, task, racing>>

\* DELETE /api/dataset/{name}
DeleteDataset ==
    /\ disk' = NoFile
    /\ cache_diag' = NoEntry
    /\ cache_stats' = NoEntry
    /\ UNCHANGED <<diag_pending, stats_pending, result, series, detected, categorical, task, racing>>

Next ==
    \/ GenerateDiagnosticReport
    \/ GenerateComprehensiveStats
    \/ DeleteDataset

Spec == Init /\ [][Next]_vars

\* ------------------------------------------------ detect_data_type alone
DetectInit ==
    /\ series \in ColumnCells
    /\ detected = "pending"
    /\ disk = NoFile
    /\ cache_diag = NoEntry
    /\ cache_stats = NoEntry
    /\ diag_pending = 0
    /\ stats_pending = 0
    /\ result = Pending
    /\ categorical = NoRun
    /\ task = NoRun
    /\ RacingUnused

Detect ==
    /\ detected = "pending"
    /\ detected' = detect_data_type(series)
    /\ UNCHANGED <<disk, cache_diag, cache_stats, diag_pending, stats_pending,
                   result, series, categorical, task, racing>>

DetectNext == Detect

SpecDetect == DetectInit /\ [][DetectNext]_vars

\* ------------------------------------------------ get_statistical_profile
\* the column names of the model for which
\* 'time' in c.lower() or 'date' in c.lower() holds
TimeNames == {"event_time", "Order_Date"}

\* pd.api.types.is_numeric_dtype(df[other_col])
IsNumericDtype(s) == ~IsObjectDtype(s)

\* df[name].cells; the name is one of df.columns
Column(df, name) == df[CHOOSE i \in 1..Len(df) : df[i].name = name].cells

RECURSIVE SumSeq(_)
SumSeq(s) == IF Len(s) = 0 THEN 0 ELSE s[1] + SumSeq(Tail(s))

\* Series.corr (Pearson) of the missing indicator of `target` with `other`,
\* over the rows where `other` is not missing, as the exact fraction
\* cov / sqrt(var): not a number when either side has no spread
Corr(target, other) ==
    LET rows == SelectSeq([i \in 1..Len(other) |-> i], LAMBDA i : ~IsNull(other[i]))
        n == Len(rows)
        a == [j \in 1..n |-> IF IsNull(target[rows[j]]) THEN 1 ELSE 0]
        b == [j \in 1..n |-> Dbl(other[rows[j]])]
        cov == n * SumSeq([j \in 1..n |-> a[j] * b[j]]) - SumSeq(a) * SumSeq(b)
        va == n * SumSeq([j \in 1..n |-> a[j] * a[j]]) - SumSeq(a) * SumSeq(a)
        vb == n * SumSeq([j \in 1..n |-> b[j] * b[j]]) - SumSeq(b) * SumSeq(b)
    IN  [notnull |-> va > 0 /\ vb > 0, cov |-> cov, var |-> va * vb]

\* abs(corr) > 0.3
CorrAboveThreshold(c) == 100 * c.cov * c.cov > CorrThresholdSq * c.var

\* round(corr, 2) in hundredths, for corr = cov / sqrt(var)
RoundCorr(c) ==
    LET k == CHOOSE m \in 0..100 :
                /\ (m = 0 \/ (2 * m - 1) * (2 * m - 1) * c.var <= 40000 * c.cov * c.cov)
                /\ (m = 100 \/ (2 * m + 1) * (2 * m + 1) * c.var > 40000 * c.cov * c.cov)
    IN  IF c.cov < 0 THEN 0 - k ELSE k

\* MnarColumns without the test abs(corr) > 0.3
MnarColumnsAnyCorr(df, col, fault) ==
    { i \in 1..Len(df) :
        /\ df[i].name # col
        /\ IsNumericDtype(df[i].cells)
        /\ NUnique(df[i].cells) > 1
        /\ df[i].name # fault
        /\ Corr(Column(df, col), df[i].cells).notnull }

\* the other columns whose entry get_mnar_indicators stores; the corr call
\* on the column named `fault` raises
MnarColumns(df, col, fault) ==
    { i \in 1..Len(df) :
        /\ df[i].name # col
        /\ IsNumericDtype(df[i].cells)
        /\ NUnique(df[i].cells) > 1
        /\ df[i].name # fault
        /\ Corr(Column(df, col), df[i].cells).notnull
        /\ CorrAboveThreshold(Corr(Column(df, col), df[i].cells)) }

\* get_mnar_indicators with one try around the whole loop: the columns after
\* the one whose corr call raises are never looked at
get_mnar_indicators_one_try(df, col, fault) ==
    LET stop == IF \E i \in 1..Len(df) : df[i].name = fault
                THEN CHOOSE i \in 1..Len(df) : df[i].name = fault
                ELSE Len(df) + 1
        names == {df[i].name : i \in {j \in MnarColumns(df, col, fault) : j < stop}}
    IN  [other_col \in names |-> RoundCorr(Corr(Column(df, col), Column(df, other_col)))]

get_mnar_indicators(df, col, fault) ==
    LET names == {df[i].name : i \in MnarColumns(df, col, fault)}
    IN  [other_col \in names |-> RoundCorr(Corr(Column(df, col), Column(df, other_col)))]

\* where sort_index puts a row: by the text of its time cell; the dates of
\* the model are written year first, so their texts sort as the dates do,
\* the texts that match the pattern and are no dates (month 13) sort after
\* them, other texts after those, and missing cells come last
IndexKey(c) ==
    IF c.k = "date" THEN c.v
    ELSE IF c.k = "baddate" THEN SampleSize + c.v
    ELSE IF c.k = "na" THEN 3 * SampleSize
    ELSE 2 * SampleSize + c.v

\* the rows of df.set_index(time_col).sort_index(), as row numbers of df;
\* rows of equal index keep their order (a short column is sorted by
\* insertion)
SortIndex(index) ==
    LET n == Len(index)
        before(i, j) == \/ IndexKey(index[i]) < IndexKey(index[j])
                        \/ (IndexKey(index[i]) = IndexKey(index[j]) /\ i < j)
        rank(i) == 1 + Cardinality({j \in 1..n : before(j, i)})
    IN  [r \in 1..n |-> CHOOSE i \in 1..n : rank(i) = r]

\* df.set_index(time_col)[col].sort_index().dropna()
TsSeries(df, time_col, col) ==
    LET rows == SortIndex(Column(df, time_col))
        cells == Column(df, col)
    IN  DropNa([r \in 1..Len(rows) |-> cells[rows[r]]])

\* round(acf(ts_series, nlags=1, fft=False)[1], 2), in hundredths: the sum of
\* the products of neighbouring deviations from the mean over the sum of
\* the squared deviations
Acf1(ts_series) ==
    LET n == Len(ts_series)
        x == [j \in 1..n |-> Dbl(ts_series[j])]
        d == [j \in 1..n |-> n * x[j] - SumSeq(x)]
        num == SumSeq([j \in 1..(n - 1) |-> d[j] * d[j + 1]])
        den == SumSeq([j \in 1..n |-> d[j] * d[j]])
    IN  RoundDiv(100 * num, den)

None == [is |-> "None", v |-> 0]
Number(v) == [is |-> "number", v |-> v]

\* the columns get_temporal_profile takes for time columns, in header order
TimeCols(df) == SelectSeq([i \in 1..Len(df) |-> df[i].name], LAMBDA c : c \in TimeNames)

NotTimeSeries == [is_time_series |-> FALSE]

\* get_temporal_profile taking the first time column that holds a date
get_temporal_profile_first_parsed(df, col) ==
    LET parsed == SelectSeq(TimeCols(df),
                            LAMBDA c : Len(SelectSeq(Column(df, c), ParsesAsDate)) > 0)
        time_col == parsed[1]
        ts_series == TsSeries(df, time_col, col)
    IN  IF Len(parsed) = 0
        THEN [outcome |-> "returned", value |-> NotTimeSeries, ts_series |-> <<>>]
        ELSE IF time_col = col
        THEN [outcome |-> "raised", value |-> NotTimeSeries, ts_series |-> <<>>]
        ELSE [outcome |-> "returned",
              value |-> [is_time_series |-> TRUE,
                         temporal_stability_acf1 |->
                            IF NUnique(ts_series) > 1 /\ Len(ts_series) > 1
                            THEN IF IsObjectDtype(ts_series)
                                 THEN None
                                 ELSE Number(Acf1(ts_series))
                            ELSE None],
              ts_series |-> ts_series]

\* get_temporal_profile: how the call ends, what it returns, and the
\* ts_series it computed the coefficient on
get_temporal_profile(df, col) ==
    LET time_cols == TimeCols(df)
        time_col == time_cols[1]
        ts_series == TsSeries(df, time_col, col)
    IN  IF Len(time_cols) = 0
        THEN [outcome |-> "returned", value |-> NotTimeSeries, ts_series |-> <<>>]
        ELSE IF Len(SelectSeq(Column(df, time_col), ParsesAsDate)) = 0
        THEN [outcome |-> "returned", value |-> NotTimeSeries, ts_series |-> <<>>]
        ELSE IF time_col = col     \* set_index drops the column: KeyError
        THEN [outcome |-> "raised", value |-> NotTimeSeries, ts_series |-> <<>>]
        ELSE [outcome |-> "returned",
              value |-> [is_time_series |-> TRUE,
                         temporal_stability_acf1 |->
                            IF NUnique(ts_series) > 1 /\ Len(ts_series) > 1
                            THEN IF IsObjectDtype(ts_series)   \* acf raises
                                 THEN None
                                 ELSE Number(Acf1(ts_series))
                            ELSE None],
              ts_series |-> ts_series]

\* the k-th smallest value of a column of numbers, doubled
KthSmallest(clean_data, k) ==
    LET x == [j \in 1..Len(clean_data) |-> Dbl(clean_data[j])]
    IN  CHOOSE v \in {x[j] : j \in 1..Len(x)} :
            /\ Cardinality({j \in 1..Len(x) : x[j] < v}) < k
            /\ Cardinality({j \in 1..Len(x) : x[j] <= v}) >= k

\* clean_data.mean() raises TypeError on a column of strings
MeanRaises(column, detected_type) ==
    /\ detected_type \in {"integer", "float", "identifier"}
    /\ Len(DropNa(column)) > 0
    /\ IsObjectDtype(column)

\* the keys mean and median of the profile, in hundredths
MeanMedian(column, detected_type) ==
    LET clean_data == DropNa(column)
        n == Len(clean_data)
    IN  IF detected_type \in {"integer", "float", "identifier"} /\ n > 0
        THEN [mean |-> RoundDiv(100 * SumSeq([j \in 1..n |-> Dbl(clean_data[j])]), 2 * n),
              median |-> 25 * (KthSmallest(clean_data, (n + 1) \div 2)
                               + KthSmallest(clean_data, (n + 2) \div 2))]
        ELSE [x \in {} |-> 0]

\* get_statistical_profile with set_index(time_col, inplace=True): the frame
\* loses its time column
get_statistical_profile_inplace(df, column_name, fault) ==
    LET column == Column(df, column_name)
        detected_type == detect_data_type(column)
        temporal == get_temporal_profile(df, column_name)
        after == IF Len(TimeCols(df)) > 0 /\ temporal.value.is_time_series
                 THEN SelectSeq(df, LAMBDA c : c.name # TimeCols(df)[1])
                 ELSE df
    IN  IF MeanRaises(column, detected_type)
        THEN [outcome |-> "raised", value |-> NoValue, temporal |-> NoRun, df |-> df]
        ELSE IF temporal.outcome = "raised"
        THEN [outcome |-> "raised", value |-> NoValue, temporal |-> temporal, df |-> df]
        ELSE [outcome |-> "returned",
              value |-> [column |-> column_name, data_type |-> detected_type,
                         mnar_indicators |-> get_mnar_indicators(df, column_name, fault)]
                        @@ temporal.value,
              temporal |-> temporal, df |-> after]

\* get_statistical_profile: how the call ends, the profile it returns, the
\* call of get_temporal_profile it made, and the frame after the call
get_statistical_profile(df, column_name, fault) ==
    LET column == Column(df, column_name)
        detected_type == detect_data_type(column)
        missing_count == MissingCount(column)
        temporal == get_temporal_profile(df, column_name)
        profile ==
            [column |-> column_name,
             missing_count |-> missing_count,
             missing_pct |-> RoundDiv(1000000 * missing_count, Len(column)),
             data_type |-> detected_type,
             unique_values |-> NUnique(column),
             mnar_indicators |-> get_mnar_indicators(df, column_name, fault)]
            @@ MeanMedian(column, detected_type)
            @@ temporal.value
    IN  IF MeanRaises(column, detected_type)
        THEN [outcome |-> "raised", value |-> NoValue, temporal |-> NoRun, df |-> df]
        ELSE IF temporal.outcome = "raised"
        THEN [outcome |-> "raised", value |-> NoValue, temporal |-> temporal, df |-> df]
        ELSE [outcome |-> "returned", value |-> profile, temporal |-> temporal, df |-> df]

\* ------------------------------------------------ route_task, diagnosis
\* all columns of n cells drawn from a set of cells
RECURSIVE CellSeqs(_, _)
CellSeqs(cells, n) ==
    IF n = 0 THEN {<<>>}
    ELSE UNION { { Append(s, c) : c \in cells } : s \in CellSeqs(cells, n - 1) }

NamedFile(names, cellSeqs) ==
    [kind |-> "csv",
     columns |-> [i \in 1..Len(cellSeqs) |-> [name |-> names[i], cells |-> cellSeqs[i]]]]

NaCell == [k |-> "na", v |-> 0]
IntCell(v) == [k |-> "int", v |-> v]
DateCell(v) == [k |-> "date", v |-> v]
BadDateCell == [k |-> "baddate", v |-> 0]

\* files of numeric columns: amount with missing cells anywhere, score of
\* small whole numbers after a first 0, qty with its first cell missing
NumericFiles ==
    UNION { { NamedFile(<<"amount", "score", "qty">>,
                        <<a, <<IntCell(0)>> \o b,
                          [j \in 1..n |-> IF j = 1 THEN NaCell ELSE IntCell(j % 2)]>>) :
                a \in CellSeqs({NaCell, IntCell(1)}, n),
                b \in CellSeqs({IntCell(0), IntCell(1), IntCell(2)}, n - 1) }
            : n \in 1..MaxProfileRows }

\* files with columns named for time: a numeric column with missing cells
\* before a column of date texts, two alternating numbers after one, two
\* columns of date texts, and a text column before one
TimeFiles ==
    UNION { { NamedFile(<<"amount", "event_time">>, <<a, t>>) :
                a \in CellSeqs({NaCell, IntCell(0), IntCell(1)}, n),
                t \in CellSeqs({DateCell(0), DateCell(1), BadDateCell}, n) }
            \cup { NamedFile(<<"event_time", "amount">>, <<t, Run("int", n, 2)>>) :
                t \in CellSeqs({DateCell(0), DateCell(1), BadDateCell}, n) }
            \cup { NamedFile(<<"event_time", "Order_Date">>, <<t, Run("date", n, n)>>) :
                t \in CellSeqs({DateCell(0), DateCell(1), BadDateCell}, n) }
            \cup { NamedFile(<<"category", "event_time">>, <<Run("str", n, 2), t>>) :
                t \in CellSeqs({DateCell(0), DateCell(1), BadDateCell}, n) }
            : n \in 1..MaxTimeRows }

TaskFiles == NumericFiles \cup TimeFiles \cup {EmptyFile}

\* the column_name of a submitted task: a column of the dataset
TaskColumns(file) ==
    IF file.kind = "csv" THEN {file.columns[i].name : i \in 1..Len(file.columns)}
    ELSE {"amount"}

\* the other columns on which get_mnar_indicators calls corr, and "" for a
\* run in which no corr call raises
Faults(file, column_name) ==
    {""} \cup { file.columns[i].name : i \in
                  { j \in 1..Len(file.columns) :
                      /\ file.columns[j].name # column_name
                      /\ IsNumericDtype(file.columns[j].cells)
                      /\ NUnique(file.columns[j].cells) > 1 } }

\* route_task(dataset_name, column_name, 'diagnosis'); get_ai_interpretation
\* answers or turns its own failure into an answer
route_task(file, column_name, fault) ==
    IF ReadCsvRaises(file)
    THEN [status |-> "FAILURE", column_name |-> column_name, fault |-> fault,
          run |-> NoRun, input |-> file]
    ELSE LET run == get_statistical_profile(ReadCsv(file), column_name, fault)
         IN  [status |-> IF run.outcome = "raised" THEN "FAILURE" ELSE "SUCCESS",
              column_name |-> column_name, fault |-> fault,
              run |-> run, input |-> file]

TaskInit ==
    /\ disk \in TaskFiles
    /\ cache_diag = NoEntry
    /\ cache_stats = NoEntry
    /\ diag_pending = 1
    /\ stats_pending = 0
    /\ result = Pending
    /\ series = <<>>
    /\ detected = "unused"
    /\ categorical = NoRun
    /\ task = TaskPending
    /\ RacingUnused

\* the worker runs the submitted task
RouteTask ==
    /\ task = TaskPending
    /\ \E column_name \in TaskColumns(disk) : \E fault \in Faults(disk, column_name) :
          task' = route_task(disk, column_name, fault)
    /\ UNCHANGED <<disk, cache_diag, cache_stats, diag_pending, stats_pending,
                   result, series, detected, categorical, racing>>

TaskNext ==
    \/ RouteTask
    \/ GenerateDiagnosticReport

SpecTask == TaskInit /\ [][TaskNext]_vars

\* ------------------------------------------- the categorical profile alone
\* columns of texts, the texts named by first appearance: the k-th different
\* text of a column is text k - 1
RECURSIVE CategoryColumnsOfLen(_)
CategoryColumnsOfLen(n) ==
    IF n = 0 THEN {<<>>}
    ELSE UNION { { Append(s, [k |-> "str", v |-> v]) : v \in 0..NUnique(s) }
                 : s \in CategoryColumnsOfLen(n - 1) }

CategoryColumns == UNION { CategoryColumnsOfLen(n) : n \in 1..MaxCatLen }

\* clean_series.value_counts()[x]
ValueCount(clean_series, x) == Len(SelectSeq(clean_series, LAMBDA c : c = x))

\* value_counts().head(n): value_counts sorts the counts with sort_values,
\* whose default sort is not stable, so values of equal count come in any
\* order; all the heads that sort can give
RECURSIVE ValueCountsHead(_, _, _)
ValueCountsHead(clean_series, values, n) ==
    IF n = 0 \/ values = {} THEN {<<>>}
    ELSE UNION { { <<[category |-> x, count |-> ValueCount(clean_series, x)]>> \o t :
                     t \in ValueCountsHead(clean_series, values \ {x}, n - 1) }
                 : x \in { y \in values : \A z \in values :
                             ValueCount(clean_series, z) <= ValueCount(clean_series, y) } }

CategoricalInit ==
    /\ series \in CategoryColumns
    /\ categorical = Pending
    /\ detected = "unused"
    /\ disk = NoFile
    /\ cache_diag = NoEntry
    /\ cache_stats = NoEntry
    /\ diag_pending = 0
    /\ stats_pending = 0
    /\ result = Pending
    /\ task = NoRun
    /\ RacingUnused

\* the categorical branch of the column loop of generate_diagnostic_report
CategoricalProfile ==
    /\ categorical = Pending
    /\ detect_data_type(series) = "categorical"
    /\ LET clean_series == DropNa(series)
           values == {clean_series[i] : i \in 1..Len(clean_series)}
       IN  /\ Len(clean_series) > 0
           /\ \E top_5 \in ValueCountsHead(clean_series, values, TopCategories) :
                 categorical' =
                    [outcome |-> "returned",
                     top_5_categories |-> top_5,
                     most_frequent_category_percentage |->
                        categorical_profile(clean_series).most_frequent_category_percentage]
    /\ UNCHANGED <<disk, cache_diag, cache_stats, diag_pending, stats_pending,
                   result, series, detected, task, racing>>

CategoricalNext == CategoricalProfile

SpecCategorical == CategoricalInit /\ [][CategoricalNext]_vars

\* ======================================================== the claims
\* the last run of generate_diagnostic_report returned a report
ReportReturned == result.outcome = "returned" /\ result.cache = "set"

\* the column records of that report, and the frame the run read
Diags == result.value.column_diagnostics
InputDf == result.input.columns

ProfileKeys == {"numeric_profile", "categorical_profile", "datetime_profile", "text_profile"}
BaseKeys == {"column_name", "data_type", "missing_count", "missing_percentage",
             "unique_count", "unique_ratio", "constant_flag"}
AnalyzerKeys == {"mnar_indicators", "is_time_series", "temporal_stability_acf1"}

Abs(x) == IF x < 0 THEN -x ELSE x

\* C1: when profiling of one column of a non-empty dataset raises, the run
\* of generate_diagnostic_report still returns a report that has a record for
\* every column of the dataset.
C1_ColumnFailureIsolated ==
    (/\ result.outcome # "pending"
     /\ result.input.kind = "csv"
     /\ ~DfEmpty(InputDf)
     /\ \E i \in 1..Len(InputDf) :
            ProfileRaises(InputDf[i].cells, detect_data_type(InputDf[i].cells)))
    => (ReportReturned /\ Len(Diags) = Len(InputDf))

\* C2: a report that generate_diagnostic_report returns has exactly one
\* column record per column of the dataset, in the order of the columns: as
\* many records as column_count says, the i-th one named after the i-th column.
C2_OneRecordPerColumn ==
    ReportReturned =>
        /\ Len(Diags) = Len(InputDf)
        /\ Len(Diags) = result.value.dataset_summary.column_count
        /\ \A i \in 1..Len(InputDf) : Diags[i].column_name = InputDf[i].name

C2_Witness ==
    /\ ReportReturned
    /\ Len(InputDf) = MaxCols
    /\ Diags[1].column_name # Diags[MaxCols].column_name
    /\ \E i \in 1..Len(InputDf) : Diags[i].data_type = "empty"

\* C3 as stated: every column record of the report carries an MNAR indicator
\* set and a temporal profile.
C3_AnalyzersInReport ==
    ReportReturned =>
        \A i \in 1..Len(Diags) :
            {"mnar_indicators", "is_time_series"} \subseteq DOMAIN Diags[i]

\* C3 amended: no column record of the report carries an MNAR indicator set
\* or a temporal profile; a record holds the seven basic fields and, besides
\* them, nothing but profile keys.
C3_NoAnalyzersInReport ==
    ReportReturned =>
        \A i \in 1..Len(Diags) :
            /\ DOMAIN Diags[i] \cap AnalyzerKeys = {}
            /\ BaseKeys \subseteq DOMAIN Diags[i]
            /\ DOMAIN Diags[i] \subseteq BaseKeys \cup ProfileKeys

C3_Witness ==
    /\ ReportReturned
    /\ \E i \in 1..Len(Diags) :
          Diags[i].data_type = "float" /\ Diags[i].missing_count > 0

\* C4: for a dataset with zero rows or zero columns, or a file that cannot
\* be parsed, the run returns the explicit empty-dataset result (it does not
\* raise) and leaves no diagnostics entry in the cache.
C4_EmptyDatasetResult ==
    (/\ result.outcome # "pending"
     /\ \/ result.input.kind \in {"empty", "garbage"}
        \/ result.input.kind = "csv" /\ DfEmpty(InputDf))
    => (/\ result.outcome = "returned"
        /\ result.value = EmptyResult
        /\ cache_diag = NoEntry)

\* C5 as stated: every column record holds exactly one of the four profile keys.
C5_ExactlyOneProfile ==
    ReportReturned =>
        \A i \in 1..Len(Diags) : Cardinality(DOMAIN Diags[i] \cap ProfileKeys) = 1

\* C5 amended: every column record holds at most one of the four profile
\* keys: exactly one when its data_type is integer, float, categorical, date
\* or text, and none when it is empty or identifier.
C5_AtMostOneProfile ==
    ReportReturned =>
        \A i \in 1..Len(Diags) :
            Cardinality(DOMAIN Diags[i] \cap ProfileKeys) =
                IF Diags[i].data_type \in {"empty", "identifier"} THEN 0 ELSE 1

C5_Witness ==
    /\ ReportReturned
    /\ \E i \in 1..Len(Diags) :
          Diags[i].data_type = "identifier" /\ DOMAIN Diags[i] \cap ProfileKeys = {}
    /\ \E i \in 1..Len(Diags) : Cardinality(DOMAIN Diags[i] \cap ProfileKeys) = 1

\* C6: the profile of a column record matches its data_type: numeric_profile
\* only for integer and float, categorical_profile only for categorical,
\* datetime_profile only for date, text_profile only for text, never two of
\* them, none for empty and identifier; a column whose cells are all missing
\* is typed empty and has no profile.
C6_ProfileMatchesType ==
    ReportReturned =>
        \A i \in 1..Len(Diags) :
            LET keys == DOMAIN Diags[i]
                type == Diags[i].data_type
            IN  /\ "numeric_profile" \in keys => type \in {"integer", "float"}
                /\ "categorical_profile" \in keys => type = "categorical"
                /\ "datetime_profile" \in keys => type = "date"
                /\ "text_profile" \in keys => type = "text"
                /\ \A p, q \in keys \cap ProfileKeys : p = q
                /\ type \in {"empty", "identifier"} => keys \cap ProfileKeys = {}
                /\ (\A j \in 1..Len(InputDf[i].cells) : InputDf[i].cells[j].k = "na")
                     => type = "empty" /\ keys \cap ProfileKeys = {}

C6_Witness ==
    /\ ReportReturned
    /\ \E i \in 1..Len(Diags) :
          /\ \A j \in 1..Len(InputDf[i].cells) : InputDf[i].cells[j].k = "na"
          /\ Diags[i].data_type = "empty"
    /\ \E i \in 1..Len(Diags) : "categorical_profile" \in DOMAIN Diags[i]

\* C7 as stated: missing_percentage is exactly 100 * missing_count / row_count
\* and unique_ratio is exactly unique_count / row_count (the report holds the
\* first in hundredths and the second in ten-thousandths).
C7_ExactPercentages ==
    ReportReturned =>
        \A i \in 1..Len(Diags) :
            LET n == Len(InputDf[i].cells)
            IN  /\ Diags[i].missing_percentage * n = 10000 * Diags[i].missing_count
                /\ Diags[i].unique_ratio * n = 10000 * Diags[i].unique_count

\* C7 amended: missing_percentage is in [0,100] and unique_ratio in [0,1];
\* missing_percentage is 100 * missing_count / row_count rounded to 2 decimals
\* and unique_ratio is unique_count / row_count rounded to 4 decimals, where
\* unique_count counts the distinct non-missing values; for every dataset of
\* at least one row.
C7_RoundedPercentages ==
    ReportReturned =>
        \A i \in 1..Len(Diags) :
            LET cells == InputDf[i].cells
                n == Len(cells)
                m == Cardinality({j \in 1..n : cells[j].k = "na"})
                u == Cardinality({cells[j] : j \in {l \in 1..n : cells[l].k # "na"}})
                mp == Diags[i].missing_percentage
                ur == Diags[i].unique_ratio
            IN  /\ n >= 1
                /\ Diags[i].missing_count = m
                /\ Diags[i].unique_count = u
                /\ mp \in 0..10000
                /\ ur \in 0..10000
                /\ 2 * Abs(mp * n - 10000 * m) <= n
                /\ 2 * Abs(ur * n - 10000 * u) <= n

C7_Witness ==
    /\ ReportReturned
    /\ \E i \in 1..Len(Diags) :
          /\ Diags[i].missing_count > 0
          /\ Diags[i].missing_percentage * Len(InputDf[i].cells)
               # 10000 * Diags[i].missing_count
          /\ Diags[i].unique_ratio * Len(InputDf[i].cells)
               # 10000 * Diags[i].unique_count

\* ------------------------------------------- claims on detect_data_type
\* the non-missing cells of the column, and the two samples taken from them
Cleaned == SelectSeq(series, LAMBDA c : c.k # "na")
Sample ==
    LET c == Cleaned
    IN  SubSeq(c, 1, IF Len(c) < SampleSize THEN Len(c) ELSE SampleSize)
DateSample ==
    LET c == Cleaned
    IN  SubSeq(c, 1, IF Len(c) < DateSampleSize THEN Len(c) ELSE DateSampleSize)

\* positions of the sample whose cell coerces to a number
Coerced == LET s == Sample IN {i \in 1..Len(s) : s[i].k \in {"int", "frac", "inf"}}

\* more than 0.90 of the sample coerces to numbers
MostlyNumbers ==
    LET s == Sample
    IN  10 * Len(SelectSeq(s, LAMBDA c : c.k \in {"int", "frac", "inf"})) > 9 * Len(s)

\* more than 0.75 of the first 20 values match the date pattern
MostlyDateLike ==
    LET d == DateSample
    IN  4 * Len(SelectSeq(d, LAMBDA c : c.k \in {"date", "baddate"})) > 3 * Len(d)

\* how many values of the sample parse as dates
Parsed == Len(SelectSeq(Sample, LAMBDA c : c.k = "date"))

\* C8: a column is classified numeric (integer, float, or identifier by the
\* numeric branch) exactly when more than 0.90 of its first 1000 non-missing
\* values coerce to numbers; a numeric column whose coerced values are all
\* whole numbers is identifier when distinct / values > 0.95 and integer
\* otherwise; any other numeric column is float.
C8_NumericClassification ==
    (detected # "pending" /\ Len(Cleaned) > 0) =>
        LET s == Sample
            coerced == Coerced
        IN  IF MostlyNumbers
            THEN IF \A i \in coerced : s[i].k = "int"
                 THEN IF 100 * Cardinality({s[i].v : i \in coerced})
                            > 95 * Cardinality(coerced)
                      THEN detected = "identifier"
                      ELSE detected = "integer"
                 ELSE detected = "float"
            ELSE detected \notin {"integer", "float"}

\* 1000 different sequential integers, classified identifier
C8_Witness ==
    /\ detected = "identifier"
    /\ Len(series) = SampleSize
    /\ \A i \in 1..Len(series) : series[i] = [k |-> "int", v |-> i - 1]

SemanticTypes ==
    {"integer", "float", "identifier", "date", "categorical", "text", "empty"}

\* distinct values among the non-missing ones
Distinct == LET c == Cleaned IN Cardinality({c[i] : i \in 1..Len(c)})

\* the type the fallback rule of the claim gives the column
FallbackType ==
    LET distinct == Distinct
        values == Len(Cleaned)
    IN  IF 100 * distinct > 95 * values THEN "identifier"
        ELSE IF 2 * distinct < values \/ distinct < 50 THEN "categorical"
        ELSE "text"

\* C18: a column that is neither numeric nor date is identifier when
\* distinct / values > 0.95, otherwise categorical when that ratio is < 0.5
\* or there are fewer than 50 distinct values, otherwise text; the result is
\* the first of numeric, date, identifier, categorical, text whose condition
\* holds and is always one of the seven semantic types.
C18_FallbackOrder ==
    detected # "pending" =>
        /\ detected \in SemanticTypes
        /\ Len(Cleaned) > 0 =>
              IF MostlyNumbers THEN detected \in {"integer", "float", "identifier"}
              ELSE IF MostlyDateLike /\ Parsed = Len(Sample) THEN detected = "date"
              ELSE detected = FallbackType

\* 53 texts of which 50 differ: neither identifier nor categorical
C18_Witness ==
    /\ detected = "text"
    /\ Len(Cleaned) = UniqueFloor + 3
    /\ Distinct = UniqueFloor
    /\ LET c == Cleaned IN \A i \in 1..Len(c) : c[i].k = "str"

\* C19: detect_data_type never raises: a column that passed the date
\* pattern test and whose sample does not parse gets the type of the
\* fallback, and a numeric column whose values do not convert to integers
\* (infinity) gets the next numeric type, float.
C19_NeverRaises ==
    detected # "pending" =>
        /\ detected # "raised"
        /\ (Len(Cleaned) > 0 /\ ~MostlyNumbers /\ MostlyDateLike /\ Parsed < Len(Sample))
              => detected = FallbackType /\ detected \in {"identifier", "categorical", "text"}
        /\ (Len(Cleaned) > 0 /\ MostlyNumbers
                /\ LET s == Sample IN \E i \in 1..Len(s) : s[i].k = "inf")
              => detected = "float"

\* date-like texts of which one does not parse, classified by the fallback
C19_Witness ==
    /\ detected \in {"identifier", "categorical", "text"}
    /\ ~MostlyNumbers
    /\ MostlyDateLike
    /\ Parsed < Len(Sample)
    /\ Parsed > 0

\* C11: every field of an emitted numeric_profile is a finite number or null,
\* never NaN: skewness and kurtosis are null with 2 or fewer distinct values
\* and numbers otherwise, and a std_dev that is undefined is null.
C11_NoNaNInNumericProfile ==
    ReportReturned =>
        \A i \in 1..Len(Diags) :
            "numeric_profile" \in DOMAIN Diags[i] =>
                LET p == Diags[i].numeric_profile
                    few == Diags[i].unique_count <= 2
                IN  /\ p.mean = "number" /\ p.median = "number"
                    /\ p.std_dev \in {"number", "None"}
                    /\ p.min < InfDbl /\ p.max < InfDbl
                    /\ p.skewness = (IF few THEN "None" ELSE "number")
                    /\ p.kurtosis = (IF few THEN "None" ELSE "number")

\* ---- claims about route_task, get_statistical_profile and its analyzers
\* the frame the last task read
TaskDf == ReadCsv(task.input)

\* the last task returned a profile
ProfileReturned == task.status = "SUCCESS"

\* the last task called get_temporal_profile
TemporalCalled ==
    /\ task.status # "PENDING"
    /\ task.run.outcome # "unused"
    /\ task.run.temporal.outcome # "unused"

\* the cells of the column of the frame named name
CellsOf(name) == TaskDf[CHOOSE i \in 1..Len(TaskDf) : TaskDf[i].name = name].cells

\* the column holds numbers only, and more than one
NumericWithSpread(name) ==
    /\ \A i \in 1..Len(CellsOf(name)) : CellsOf(name)[i].k \in {"na", "int", "frac", "inf"}
    /\ Cardinality({CellsOf(name)[i] : i \in 1..Len(CellsOf(name))} \ {[k |-> "na", v |-> 0]}) > 1

\* C12 as stated: every value of the mapping get_mnar_indicators returns
\* satisfies |r| > 0.3 and is a number, and every key is a column other than
\* the target that is numeric and has more than one distinct value.
C12_ValuesAboveThreshold ==
    ProfileReturned =>
        \A key \in DOMAIN task.run.value.mnar_indicators :
            /\ key # task.column_name
            /\ NumericWithSpread(key)
            /\ Abs(task.run.value.mnar_indicators[key]) > 30

\* C12 amended: every key of the mapping is a column other than the target
\* that is numeric and has more than one distinct value and whose
\* correlation r with the missing indicator is a number with |r| > 0.3; the
\* value stored is r rounded to 2 decimals, so it satisfies |value| >= 0.3
\* and can be exactly 0.3 or -0.3.
C12_RoundedAboveThreshold ==
    ProfileReturned =>
        \A key \in DOMAIN task.run.value.mnar_indicators :
            LET r == Corr(CellsOf(task.column_name), CellsOf(key))
                value == task.run.value.mnar_indicators[key]
            IN  /\ key # task.column_name
                /\ NumericWithSpread(key)
                /\ r.notnull
                /\ 100 * r.cov * r.cov > 9 * r.var
                /\ Abs(value) >= 30 /\ Abs(value) <= 100
                /\ (2 * Abs(value) - 1) * (2 * Abs(value) - 1) * r.var <= 40000 * r.cov * r.cov
                /\ 40000 * r.cov * r.cov <= (2 * Abs(value) + 1) * (2 * Abs(value) + 1) * r.var

\* a correlation between 0.3 and 0.305, stored as 0.3
C12_Witness ==
    /\ ProfileReturned
    /\ \E key \in DOMAIN task.run.value.mnar_indicators :
          Abs(task.run.value.mnar_indicators[key]) = 30

TimeNamed == {i \in 1..Len(TaskDf) : TaskDf[i].name \in {"event_time", "Order_Date"}}

\* the first of them in header order
FirstTimeNamed == CHOOSE i \in TimeNamed : \A j \in TimeNamed : i <= j

\* the rows whose cell in the first such column is a date
DatedRows == {r \in 1..Len(TaskDf[FirstTimeNamed].cells) : TaskDf[FirstTimeNamed].cells[r].k = "date"}

\* C14: for every dataset and every column, the time column itself and
\* columns of texts included, get_temporal_profile returns and raises no
\* error; when the time column holds at least one date the result is a time
\* series with a coefficient or null, and the coefficient is null whenever
\* the indexed series has fewer than two observations or at most one
\* distinct value.
C14_TemporalProfileReturns ==
    TemporalCalled =>
        LET t == task.run.temporal
            distinct == Cardinality({t.ts_series[i] : i \in 1..Len(t.ts_series)})
        IN  /\ t.outcome = "returned"
            /\ (TimeNamed # {} /\ DatedRows # {}) =>
                  /\ t.value.is_time_series
                  /\ t.value.temporal_stability_acf1.is \in {"number", "None"}
                  /\ (Len(t.ts_series) < 2 \/ distinct <= 1) =>
                        t.value.temporal_stability_acf1.is = "None"

\* the target column over the rows whose time cell is a date and whose
\* target cell is not missing, in the order of the dates, rows of one date
\* in file order
SeriesByDate ==
    LET time == TaskDf[FirstTimeNamed].cells
        target == CellsOf(task.column_name)
        rows == {r \in DatedRows : target[r].k # "na"}
        place(r) == 1 + Cardinality({q \in rows : \/ time[q].v < time[r].v
                                                  \/ (time[q].v = time[r].v /\ q < r)})
    IN  [p \in 1..Cardinality(rows) |-> target[CHOOSE r \in rows : place(r) = p]]

\* C15: the series on which the lag-1 autocorrelation is computed is the
\* target column ordered by the parsed timestamps of the time column, the
\* rows whose time value does not parse or whose target value is missing
\* removed.
C15_SeriesOrderedByTimestamps ==
    (TemporalCalled /\ task.run.temporal.outcome = "returned"
                    /\ task.run.temporal.value.is_time_series)
        => task.run.temporal.ts_series = SeriesByDate

\* the target column ordered by the texts of a time column, missing target
\* values removed
SeriesByText(i) ==
    LET time == TaskDf[i].cells
        target == CellsOf(task.column_name)
        key(r) == IF time[r].k = "date" THEN time[r].v ELSE 1000 + time[r].v
        rows == {r \in 1..Len(target) : target[r].k # "na"}
        place(r) == 1 + Cardinality({q \in rows : \/ key(q) < key(r)
                                                  \/ (key(q) = key(r) /\ q < r)})
    IN  [p \in 1..Cardinality(rows) |-> target[CHOOSE r \in rows : place(r) = p]]

\* C16: the time axis is the first column in declaration order whose name
\* contains "time" or "date"; when no name matches, or that column holds no
\* date, the result is is_time_series = false and later matching columns are
\* not tried.
C16_FirstTimeColumnOnly ==
    TemporalCalled =>
        LET t == task.run.temporal
        IN  /\ (TimeNamed = {} \/ DatedRows = {}) =>
                  /\ t.outcome = "returned"
                  /\ t.value = [is_time_series |-> FALSE]
            /\ (t.outcome = "returned" /\ t.value.is_time_series) =>
                  /\ TimeNamed # {} /\ DatedRows # {}
                  /\ t.ts_series = SeriesByText(FirstTimeNamed)

\* two columns named for time, the first without a date, the second with
\* dates: no time series
C16_Witness ==
    /\ TemporalCalled
    /\ Cardinality(TimeNamed) = 2
    /\ DatedRows = {}
    /\ \E i \in TimeNamed : \E r \in 1..Len(TaskDf[i].cells) : TaskDf[i].cells[r].k = "date"
    /\ task.run.temporal.value = [is_time_series |-> FALSE]
    /\ task.column_name = "Order_Date"

\* the frame without the column whose corr call raised
WithoutFault == SelectSeq(TaskDf, LAMBDA c : c.name # task.fault)

\* the |r| > 0.3 correlations of the missing indicator of the target with
\* the numeric columns of a frame that have more than one distinct value
Indicators(frame) ==
    LET target == CellsOf(task.column_name)
        kept == {i \in 1..Len(frame) :
                   /\ frame[i].name # task.column_name
                   /\ NumericWithSpread(frame[i].name)
                   /\ Corr(target, frame[i].cells).notnull
                   /\ 100 * Corr(target, frame[i].cells).cov * Corr(target, frame[i].cells).cov
                        > 9 * Corr(target, frame[i].cells).var}
    IN  {<<frame[i].name, RoundCorr(Corr(target, frame[i].cells))>> : i \in kept}

\* C17: a correlation computation that raises for one other column causes
\* only that pair to be omitted: get_mnar_indicators still returns, and the
\* entries for the remaining columns are those of the frame without the
\* failing column.
C17_FailingPairOmitted ==
    (task.status # "PENDING" /\ task.fault # "") =>
        /\ task.run.outcome = "raised" =>
              \/ task.run.temporal.outcome = "raised"
              \/ task.run.temporal.outcome = "unused"
        /\ task.run.outcome = "returned" =>
              LET mnar == task.run.value.mnar_indicators
              IN  {<<key, mnar[key]>> : key \in DOMAIN mnar} = Indicators(WithoutFault)

\* the corr call on score raised and the entry of qty is there
C17_Witness ==
    /\ ProfileReturned
    /\ task.fault = "score"
    /\ DOMAIN task.run.value.mnar_indicators = {"qty"}

\* where a value first appears in the column
FirstSeen(x) == CHOOSE i \in 1..Len(series) : series[i] = x /\ \A j \in 1..(i - 1) : series[j] # x

\* how often a value appears in the column
Occurrences(x) == Cardinality({i \in 1..Len(series) : series[i] = x})

\* C20: for a categorical column top_5_categories has at most 5 entries, in
\* descending count with ties in first-seen order, holds the 5 most frequent
\* distinct values (all of them when there are fewer than 6), and
\* most_frequent_category_percentage is 100 * largest count / non-missing values.
C20_TopFiveFirstSeen ==
    categorical.outcome = "returned" =>
        LET top == categorical.top_5_categories
            values == {Cleaned[i] : i \in 1..Len(Cleaned)}
            listed == {top[i].category : i \in 1..Len(top)}
            largest == MaxOf({Occurrences(x) : x \in values})
        IN  /\ Len(top) <= 5
            /\ Len(top) = (IF Cardinality(values) < 6 THEN Cardinality(values) ELSE 5)
            /\ Cardinality(listed) = Len(top)
            /\ \A i \in 1..Len(top) : top[i].count = Occurrences(top[i].category)
            /\ \A i, j \in 1..Len(top) :
                  i < j => \/ top[i].count > top[j].count
                           \/ /\ top[i].count = top[j].count
                              /\ FirstSeen(top[i].category) < FirstSeen(top[j].category)
            /\ \A x \in values \ listed : \A i \in 1..Len(top) :
                  \/ Occurrences(x) < top[i].count
                  \/ /\ Occurrences(x) = top[i].count
                     /\ FirstSeen(top[i].category) < FirstSeen(x)
            /\ categorical.most_frequent_category_percentage * Len(Cleaned)
                  = 10000 * largest

\* ------------------------------------------------------ perform_imputation
MaxImputeRows == 3      \* most rows of a frame given to perform_imputation

\* the float whose double is d, as a cell
NumCell(d) ==
    IF d >= InfDbl THEN [k |-> "inf", v |-> 0]
    ELSE IF d % 2 = 0 THEN [k |-> "int", v |-> d \div 2]
    ELSE [k |-> "frac", v |-> (d - 1) \div 2]

\* column_name in df.columns
HasColumn(df, name) == \E i \in 1..Len(df) : df[i].name = name

\* the parameter value of a task: absent (None) or a number
NoneValue == [k |-> "None", v |-> 0]
ImputeValues == {NoneValue, IntCell(0)}

\* the method of a task: the four of perform_imputation and one it has not
ImputeMethods == {"mean", "median", "mode", "constant", "knn"}

\* df[column_name].mean(), doubled, of a column with a number in it
MeanDbl(clean_series) ==
    LET n == Len(clean_series)
        total == SumSeq([j \in 1..n |-> Dbl(clean_series[j])])
    IN  IF \E j \in 1..n : clean_series[j].k = "inf" THEN InfDbl ELSE total \div n

\* df[column_name].median(), doubled, of a column with a number in it
MedianDbl(clean_series) ==
    LET n == Len(clean_series)
        lo == KthSmallest(clean_series, (n + 1) \div 2)
        hi == KthSmallest(clean_series, (n + 2) \div 2)
    IN  IF hi >= InfDbl THEN InfDbl ELSE (lo + hi) \div 2

\* the mean and the median of the column are whole or half numbers, so that
\* they are cells
FillIsCell(cells) ==
    LET clean_series == DropNa(cells)
        n == Len(clean_series)
    IN  \/ n = 0
        \/ IsObjectDtype(cells)
        \/ /\ SumSeq([j \in 1..n |-> Dbl(clean_series[j])]) % n = 0
           /\ (KthSmallest(clean_series, (n + 1) \div 2)
               + KthSmallest(clean_series, (n + 2) \div 2)) % 2 = 0

\* df[column_name].mode()[0]: of the values that occur most, the smallest,
\* numbers by size and texts as sort_index sorts them
Mode0(clean_series) ==
    LET ModeKey(c) == IF IsNumber(c) THEN Dbl(c) ELSE IndexKey(c)
        vals == {clean_series[j] : j \in 1..Len(clean_series)}
        modes == {x \in vals : \A y \in vals :
                     ValueCount(clean_series, y) <= ValueCount(clean_series, x)}
    IN  CHOOSE x \in modes : \A y \in modes : ModeKey(x) <= ModeKey(y)

\* how the computation of fill_value ends for a column with missing cells:
\* mean and median raise TypeError on a column of texts, mode()[0] raises on
\* a column with nothing but missing cells, and a method that is none of the
\* four raises ValueError
FillRaises(cells, method, value) ==
    \/ method \in {"mean", "median"} /\ IsObjectDtype(cells)
    \/ method = "mode" /\ Len(DropNa(cells)) = 0
    \/ method = "constant" /\ value = NoneValue /\ IsObjectDtype(cells)
    \/ method \notin {"mean", "median", "mode", "constant"}

\* fill_value: NaN (a missing cell) for the mean or median of a column with
\* nothing but missing cells, and for the value None cast to a float dtype
FillValue(cells, method, value) ==
    LET clean_series == DropNa(cells)
    IN  IF method = "mean"
        THEN IF Len(clean_series) = 0 THEN NaCell ELSE NumCell(MeanDbl(clean_series))
        ELSE IF method = "median"
        THEN IF Len(clean_series) = 0 THEN NaCell ELSE NumCell(MedianDbl(clean_series))
        ELSE IF method = "mode" THEN Mode0(clean_series)
        ELSE IF value = NoneValue THEN NaCell ELSE value

\* df[column_name].fillna(fill_value, inplace=True)
FillNa(df, column_name, fill_value) ==
    [i \in 1..Len(df) |->
        IF df[i].name = column_name
        THEN [df[i] EXCEPT !.cells =
                [j \in 1..Len(df[i].cells) |->
                    IF IsNull(df[i].cells[j]) THEN fill_value ELSE df[i].cells[j]]]
        ELSE df[i]]

\* perform_imputation: the call, how it ends, the rows_affected of the
\* message it returns, and the frame after the call
perform_imputation(df, column_name, method, value) ==
    LET call == [column_name |-> column_name, method |-> method, value |-> value,
                 input |-> df]
    IN  IF ~HasColumn(df, column_name)
        THEN call @@ [outcome |-> "raised", rows_affected |-> 0, df |-> df]
        ELSE LET cells == Column(df, column_name)
                 original_missing_count == MissingCount(cells)
             IN  IF original_missing_count = 0
                 THEN call @@ [outcome |-> "returned", rows_affected |-> 0, df |-> df]
                 ELSE IF FillRaises(cells, method, value)
                 THEN call @@ [outcome |-> "raised", rows_affected |-> 0, df |-> df]
                 ELSE call @@ [outcome |-> "returned",
                               rows_affected |-> original_missing_count,
                               df |-> FillNa(df, column_name,
                                             FillValue(cells, method, value))]

\* the frames given to perform_imputation: a column of numbers and a column
\* of texts, either with missing cells anywhere
ImputeFiles ==
    UNION { { NamedFile(<<"amount", "category">>, <<a, c>>) :
                a \in { x \in CellSeqs({NaCell, IntCell(0), IntCell(2)}, n) : FillIsCell(x) },
                c \in { Run("str", n, 2) }
                      \cup { y \in CellSeqs({NaCell, [k |-> "str", v |-> 0],
                                            [k |-> "str", v |-> 1]}, n) :
                               MissingCount(y) > 0 } }
            : n \in 1..MaxImputeRows }

ImputeInit ==
    /\ disk \in ImputeFiles
    /\ cache_diag = NoEntry
    /\ cache_stats = NoEntry
    /\ diag_pending = 0
    /\ stats_pending = 0
    /\ result = Pending
    /\ series = <<>>
    /\ detected = "unused"
    /\ categorical = NoRun
    /\ task = TaskPending
    /\ RacingUnused

PerformImputation ==
    /\ task = TaskPending
    /\ \E column_name \in {"amount", "category", "price"} : \E method \in ImputeMethods :
       \E value \in ImputeValues :
          task' = perform_imputation(ReadCsv(disk), column_name, method, value)
    /\ UNCHANGED <<disk, cache_diag, cache_stats, diag_pending, stats_pending,
                   result, series, detected, categorical, racing>>

SpecImpute == ImputeInit /\ [][PerformImputation]_vars

\* C24: when perform_imputation returns rows_affected = k > 0 for one of its
\* four methods, the column has no missing cell afterwards and exactly k
\* cells of the frame have changed; when the column had no missing cell it
\* returns rows_affected = 0 and changes nothing; for a method or a column it
\* does not know it raises and changes nothing.
Imputed == task # TaskPending

ChangedCells(before, after) ==
    SumSeq([i \in 1..Len(before) |->
              Cardinality({j \in 1..Len(before[i].cells) :
                             before[i].cells[j] # after[i].cells[j]})])

C24_ImputationContract ==
    Imputed =>
        /\ (task.outcome = "returned" /\ task.rows_affected > 0) =>
              /\ MissingCount(Column(task.df, task.column_name)) = 0
              /\ ChangedCells(task.input, task.df) = task.rows_affected
        /\ (HasColumn(task.input, task.column_name)
            /\ MissingCount(Column(task.input, task.column_name)) = 0) =>
              /\ task.outcome = "returned"
              /\ task.rows_affected = 0
              /\ task.df = task.input
        /\ (~HasColumn(task.input, task.column_name) \/ task.method = "knn") =>
              /\ task.outcome = "raised"
              /\ task.df = task.input

\* ------------------------------------- route_task, the tasks that rewrite
MaxRewriteRows == 2     \* most rows of a file given to the rewriting tasks
MaxQueued == 1          \* most queued runs of generate_diagnostic_report

\* df.to_csv(file_path, index=False): a frame that has lost its last column
\* is written as empty lines, which read_csv refuses as it does a file of zero
\* bytes (EmptyDataError)
ToCsv(df) == IF Len(df) = 0 THEN EmptyFile ELSE [kind |-> "csv", columns |-> df]

\* the task types of route_task, and one it has not
TaskTypes ==
    {"diagnosis", "delete_column", "impute_mean", "impute_median", "impute_mode",
     "impute_constant", "impute_knn", "standard_scale", "minmax_scale", "normalize"}

\* task_type.startswith('impute_'): method = task_type.split('_')[1], "" for
\* the other task types
ImputeMethod(task_type) ==
    CASE task_type = "impute_mean" -> "mean"
      [] task_type = "impute_median" -> "median"
      [] task_type = "impute_mode" -> "mode"
      [] task_type = "impute_constant" -> "constant"
      [] task_type = "impute_knn" -> "knn"
      [] OTHER -> ""

\* new_col_name = f"{column_name}_{method}_scaled"
NewColName(column_name, method) == column_name \o "_" \o method \o "_scaled"

\* n * n times the variance of the doubled values of a column of numbers
NNVar(cells) ==
    LET n == Len(cells)
        d == [j \in 1..n |-> Dbl(cells[j])]
    IN  n * SumSeq([j \in 1..n |-> d[j] * d[j]]) - SumSeq(d) * SumSeq(d)

\* StandardScaler().fit_transform: (x - mean) / std with the population std,
\* a column of one value scaled to 0
StandardScaled(cells) ==
    LET n == Len(cells)
        d == [j \in 1..n |-> Dbl(cells[j])]
        total == SumSeq(d)
    IN  [j \in 1..n |->
            IF NNVar(cells) = 0 THEN IntCell(0)
            ELSE NumCell((2 * (n * d[j] - total))
                         \div (CHOOSE r \in 1..NNVar(cells) : r * r = NNVar(cells)))]

\* MinMaxScaler().fit_transform: (x - min) / (max - min), a column of one
\* value scaled to 0
MinMaxScaled(cells) ==
    LET n == Len(cells)
        d == [j \in 1..n |-> Dbl(cells[j])]
        lo == MinOf({d[j] : j \in 1..n})
        hi == MaxOf({d[j] : j \in 1..n})
    IN  [j \in 1..n |->
            IF hi = lo THEN IntCell(0)
            ELSE NumCell((2 * (d[j] - lo)) \div (hi - lo))]

\* the scaled values of the column, by either scaler, are whole or half
\* numbers, so that they are cells
ScaledIsCell(cells) ==
    LET n == Len(cells)
        d == [j \in 1..n |-> Dbl(cells[j])]
        total == SumSeq(d)
        lo == MinOf({d[j] : j \in 1..n})
        hi == MaxOf({d[j] : j \in 1..n})
    IN  \/ n = 0
        \/ \E j \in 1..n : ~IsNumber(cells[j]) \/ cells[j].k = "inf"
        \/ /\ \/ NNVar(cells) = 0
              \/ \E r \in 1..NNVar(cells) :
                    /\ r * r = NNVar(cells)
                    /\ \A j \in 1..n : (2 * (n * d[j] - total)) % r = 0
           /\ \/ hi = lo
              \/ \A j \in 1..n : (2 * (d[j] - lo)) % (hi - lo) = 0

\* a cell True or False; read_csv gives a column of such cells, none
\* missing, the dtype bool
BoolCell(v) == [k |-> "bool", v |-> v]
IsBoolDtype(cells) == Len(cells) > 0 /\ \A j \in 1..Len(cells) : cells[j].k = "bool"

\* the numbers a column counts as: True is 1 and False is 0
NumbersOf(cells) ==
    [j \in 1..Len(cells) |-> IF cells[j].k = "bool" THEN IntCell(cells[j].v) ELSE cells[j]]

AsNumbers(df) == [i \in 1..Len(df) |-> [df[i] EXCEPT !.cells = NumbersOf(@)]]

\* perform_standardization raises before it writes: KeyError for a column
\* the frame has not, ValueError for a column that is not numeric or has a
\* missing cell, and the ValueError of the scaler for an infinite value
StandardizationRaises(df, column_name) ==
    \/ ~HasColumn(df, column_name)
    \/ LET cells == NumbersOf(Column(df, column_name))
       IN  \/ ~IsNumericDtype(cells) \/ Len(cells) = 0
           \/ MissingCount(cells) > 0
           \/ \E j \in 1..Len(cells) : cells[j].k = "inf"

\* df[column_name].quantile(0.25) raises after df.to_csv: numpy from 1.22 on
\* interpolates a quantile with a subtraction, which it refuses for booleans
\* (TypeError); fault = "quantile" is a build with such a numpy
AuditRaises(df, column_name, fault) ==
    IsBoolDtype(Column(df, column_name)) /\ fault = "quantile"

\* perform_standardization: how the call ends, the status of the report it
\* returns, and the frame it has written to file_path, if it has
perform_standardization(df, column_name, method, fault) ==
    IF HasColumn(df, NewColName(column_name, method))
    THEN [outcome |-> "returned", status |-> "SKIPPED", wrote |-> FALSE, df |-> df]
    ELSE IF StandardizationRaises(df, column_name)
    THEN [outcome |-> "raised", status |-> "none", wrote |-> FALSE, df |-> df]
    ELSE LET cells == NumbersOf(Column(df, column_name))
             scaled == Append(df, [name |-> NewColName(column_name, method),
                                   cells |-> IF method = "standard"
                                             THEN StandardScaled(cells)
                                             ELSE MinMaxScaled(cells)])
         IN  IF AuditRaises(df, column_name, fault)
             THEN [outcome |-> "raised", status |-> "none", wrote |-> TRUE, df |-> scaled]
             ELSE [outcome |-> "returned", status |-> "SUCCESS", wrote |-> TRUE,
                   df |-> scaled]

\* perform_delete_column
perform_delete_column(df, column_name) ==
    IF ~HasColumn(df, column_name)
    THEN [outcome |-> "raised", wrote |-> FALSE, df |-> df]
    ELSE [outcome |-> "returned", wrote |-> TRUE,
          df |-> SelectSeq(df, LAMBDA c : c.name # column_name)]

\* what can fail inside a task: a corr call of a diagnosis, and the quantile
\* of a scaling of a column of booleans
TaskFaults(file, column_name, task_type) ==
    IF file.kind = "csv" /\ HasColumn(file.columns, column_name)
    THEN IF task_type = "diagnosis"
         THEN Faults([file EXCEPT !.columns = AsNumbers(@)], column_name)
         ELSE IF task_type \in {"standard_scale", "minmax_scale"}
                 /\ IsBoolDtype(Column(file.columns, column_name))
         THEN {"", "quantile"}
         ELSE {""}
    ELSE {""}

\* route_task for every task type: the status of the result it returns, and
\* what the path of the dataset holds afterwards
route_task_typed(file, column_name, task_type, value, fault) ==
    LET call == [column_name |-> column_name, task_type |-> task_type,
                 value |-> value, fault |-> fault, input |-> file]
        done(status, after) == call @@ [status |-> status, disk |-> after]
        df == ReadCsv(file)
    IN  IF ReadCsvRaises(file) THEN done("FAILURE", file)
        ELSE IF task_type = "diagnosis"
        THEN IF ~HasColumn(df, column_name) THEN done("FAILURE", file)
             ELSE done(route_task([file EXCEPT !.columns = AsNumbers(@)],
                                  column_name, fault).status, file)
        ELSE IF task_type = "delete_column"
        THEN LET r == perform_delete_column(df, column_name)
             IN  done(IF r.outcome = "raised" THEN "FAILURE" ELSE "SUCCESS",
                      IF r.wrote THEN ToCsv(r.df) ELSE file)
        ELSE IF ImputeMethod(task_type) # ""
        THEN LET r == perform_imputation(df, column_name, ImputeMethod(task_type), value)
             IN  IF r.outcome = "raised" THEN done("FAILURE", file)
                 ELSE done("SUCCESS", ToCsv(r.df))
        ELSE IF task_type \in {"standard_scale", "minmax_scale"}
        THEN LET method == IF task_type = "standard_scale" THEN "standard" ELSE "minmax"
                 r == perform_standardization(df, column_name, method, fault)
             IN  done(IF r.outcome = "raised" THEN "FAILURE" ELSE "SUCCESS",
                      IF r.wrote THEN ToCsv(r.df) ELSE file)
        ELSE done("ERROR", file)

\* ------------------------------------------ perform_dataset_cleaning_task
\* the frame of the rows whose numbers are given, in that order
TakeRows(df, rows) ==
    [i \in 1..Len(df) |->
        [df[i] EXCEPT !.cells = [r \in 1..Len(rows) |-> df[i].cells[rows[r]]]]]

\* df.dropna(inplace=True)
DropNaRows(df) ==
    TakeRows(df, SelectSeq([j \in 1..RowCount(df) |-> j],
                           LAMBDA j : \A i \in 1..Len(df) : ~IsNull(df[i].cells[j])))

\* df.drop_duplicates(inplace=True): a row equal to an earlier one goes
DropDuplicateRows(df) ==
    TakeRows(df, SelectSeq([j \in 1..RowCount(df) |-> j],
                           LAMBDA j : ~\E h \in 1..(j - 1) :
                              \A i \in 1..Len(df) : df[i].cells[h] = df[i].cells[j]))

\* perform_dataset_cleaning_task: the status it returns and what the path
\* holds afterwards
perform_dataset_cleaning_task(file, action_type) ==
    LET call == [column_name |-> "", task_type |-> action_type,
                 value |-> NoneValue, fault |-> "", input |-> file]
        done(status, after) == call @@ [status |-> status, disk |-> after]
    IN  IF ReadCsvRaises(file) THEN done("FAILURE", file)
        ELSE IF action_type = "drop_na_rows"
        THEN done("SUCCESS", ToCsv(DropNaRows(ReadCsv(file))))
        ELSE IF action_type = "drop_duplicate_rows"
        THEN done("SUCCESS", ToCsv(DropDuplicateRows(ReadCsv(file))))
        ELSE done("FAILURE", file)

\* ------------------------------- the worker and the requests, step by step
\* the files given to the rewriting tasks: a column of numbers with missing
\* cells anywhere, and a column of texts, whole or with its first cell missing
RewriteFiles ==
    UNION { { NamedFile(<<"amount", "category">>, <<a, c>>) :
                a \in { x \in CellSeqs({NaCell, IntCell(0), IntCell(2)}, n) :
                          FillIsCell(x) /\ ScaledIsCell(x) },
                c \in { Run("str", n, 2),
                        [j \in 1..n |-> IF j = 1 THEN NaCell ELSE [k |-> "str", v |-> 0]] } }
            : n \in 1..MaxRewriteRows }

\* upload_dataset has written the file and queued both tasks; one task of
\* route_task or of perform_dataset_cleaning_task is sent and not run yet
RewriteInit ==
    /\ disk \in RewriteFiles
    /\ cache_diag = NoEntry
    /\ cache_stats = NoEntry
    /\ diag_pending = 1
    /\ stats_pending = 1
    /\ result = Pending
    /\ series = <<>>
    /\ detected = "unused"
    /\ categorical = NoRun
    /\ task = TaskPending
    /\ diag_read = NoRun
    /\ stats_read = NoRun
    /\ response = NoRun
    /\ public = {}
    /\ uploads = <<>>

\* generate_diagnostic_report up to its last statement: it reads the file and
\* computes the report, or stops at an empty frame (deleting its key) or at
\* an exception
DiagRead ==
    /\ diag_pending > 0
    /\ diag_read = NoRun
    /\ diag_pending' = diag_pending - 1
    /\ LET r == generate_diagnostic_report(disk)
       IN  /\ diag_read' = IF r.cache = "set" THEN r ELSE NoRun
           /\ cache_diag' = IF r.cache = "delete" THEN NoEntry ELSE cache_diag
    /\ UNCHANGED <<disk, cache_stats, stats_pending, result, series, detected,
                   categorical, task, stats_read, response, public, uploads>>

\* redis_cache.set(cache_key, json.dumps(diagnostic_report, ...), ex=86400)
DiagSet ==
    /\ diag_read # NoRun
    /\ cache_diag' = JsonDumps(diag_read.value)
    /\ diag_read' = NoRun
    /\ UNCHANGED <<disk, cache_stats, diag_pending, stats_pending, result, series,
                   detected, categorical, task, stats_read, response, public, uploads>>

\* generate_comprehensive_stats up to the column loop
StatsRead ==
    /\ stats_pending > 0
    /\ stats_read = NoRun
    /\ stats_pending' = stats_pending - 1
    /\ LET r == generate_comprehensive_stats(disk)
       IN  /\ stats_read' = IF r.cache = "set" THEN r @@ [stat |-> FALSE] ELSE NoRun
           /\ cache_stats' = IF r.cache = "delete" THEN NoEntry ELSE cache_stats
    /\ UNCHANGED <<disk, cache_diag, diag_pending, result, series, detected,
                   categorical, task, diag_read, response, public, uploads>>

\* os.path.getmtime(file_path), os.path.getsize(file_path): FileNotFoundError
\* when the file is gone, and the task ends there
StatsStat ==
    /\ stats_read # NoRun
    /\ ~stats_read.stat
    /\ stats_read' = IF disk.kind = "none" THEN NoRun
                     ELSE [stats_read EXCEPT !.stat = TRUE]
    /\ UNCHANGED <<disk, cache_diag, cache_stats, diag_pending, stats_pending, result,
                   series, detected, categorical, task, diag_read, response, public,
                   uploads>>

\* redis_cache.set(cache_key, json.dumps(comprehensive_result, ...), ex=86400)
StatsSet ==
    /\ stats_read # NoRun
    /\ stats_read.stat
    /\ cache_stats' = stats_read.value
    /\ stats_read' = NoRun
    /\ UNCHANGED <<disk, cache_diag, diag_pending, stats_pending, result, series,
                   detected, categorical, task, diag_read, response, public, uploads>>

\* the worker runs the task sent to route_task, on a column of the dataset
\* or on one it has not
RouteTaskTyped ==
    /\ task = TaskPending
    /\ \E column_name \in TaskColumns(disk) \cup {"price"} : \E task_type \in TaskTypes :
       \E value \in IF task_type = "impute_constant" THEN ImputeValues ELSE {NoneValue} :
       \E fault \in TaskFaults(disk, column_name, task_type) :
          /\ task' = route_task_typed(disk, column_name, task_type, value, fault)
          /\ disk' = task'.disk
    /\ UNCHANGED <<cache_diag, cache_stats, diag_pending, stats_pending, result,
                   series, detected, categorical, racing>>

\* POST /api/dataset/{name}/clean: 404 without the file, else the worker runs
\* perform_dataset_cleaning_task
CleanDataset ==
    /\ task = TaskPending
    /\ disk.kind # "none"
    /\ \E action_type \in {"drop_na_rows", "drop_duplicate_rows", "drop_outliers"} :
          /\ task' = perform_dataset_cleaning_task(disk, action_type)
          /\ disk' = task'.disk
    /\ UNCHANGED <<cache_diag, cache_stats, diag_pending, stats_pending, result,
                   series, detected, categorical, racing>>

\* GET /api/dataset/{name}/diagnostics: the cached report, or 404 without the
\* file, or 202 and a queued run of generate_diagnostic_report
GetDatasetDiagnostics ==
    /\ cache_diag = NoEntry /\ disk.kind # "none" => diag_pending < MaxQueued
    /\ response' = IF cache_diag # NoEntry
                   THEN [status_code |-> 200, content |-> cache_diag]
                   ELSE IF disk.kind = "none"
                   THEN [status_code |-> 404, content |-> NoEntry]
                   ELSE [status_code |-> 202, content |-> NoEntry]
    /\ diag_pending' = IF cache_diag = NoEntry /\ disk.kind # "none"
                       THEN diag_pending + 1 ELSE diag_pending
    /\ UNCHANGED <<disk, cache_diag, cache_stats, stats_pending, result, series,
                   detected, categorical, task, diag_read, stats_read, public, uploads>>

RewriteNext ==
    \/ DiagRead
    \/ DiagSet
    \/ StatsRead
    \/ StatsStat
    \/ StatsSet
    \/ RouteTaskTyped
    \/ CleanDataset
    \/ GetDatasetDiagnostics
    \/ DeleteDataset

SpecRewrite == RewriteInit /\ [][RewriteNext]_vars

\* ------------------------------------------------ route_task, on its own
\* the files given to route_task: those given to perform_imputation, files
\* with a column of booleans before a column of one number, a file of zero
\* bytes and no file
RouteFiles ==
    { f \in ImputeFiles : ScaledIsCell(f.columns[1].cells) }
    \cup UNION { { NamedFile(<<"flag", "amount">>, <<b, [j \in 1..n |-> IntCell(2)]>>) :
                    b \in { x \in CellSeqs({BoolCell(0), BoolCell(1)}, n) :
                              ScaledIsCell(NumbersOf(x)) } }
                : n \in 1..MaxImputeRows }
    \cup {EmptyFile, NoFile}

RouteInit ==
    /\ disk \in RouteFiles
    /\ cache_diag = NoEntry
    /\ cache_stats = NoEntry
    /\ diag_pending = 0
    /\ stats_pending = 0
    /\ result = Pending
    /\ series = <<>>
    /\ detected = "unused"
    /\ categorical = NoRun
    /\ task = TaskPending
    /\ RacingUnused

SpecRoute == RouteInit /\ [][RouteTaskTyped]_vars

\* C25: route_task never raises: for every task type and input it returns a
\* result whose status is SUCCESS, ERROR or FAILURE, and whenever the status
\* is not SUCCESS the dataset file is what it was before the task.
C25_FailureLeavesFile ==
    [][task' # task =>
          /\ task'.status \in {"SUCCESS", "ERROR", "FAILURE"}
          /\ (task'.status # "SUCCESS" => disk' = disk)]_vars

\* no run of either report task is queued or between its read and its write
NoTaskInFlight ==
    /\ diag_pending = 0
    /\ stats_pending = 0
    /\ diag_read = NoRun
    /\ stats_read = NoRun

\* C21: whenever a diagnostics cache entry exists for the dataset, it is the
\* report of the current content of the dataset's file: a task that rewrites
\* the file removes or replaces the entry.  Stated for the states in which the
\* file exists and no report task is in flight, so that the content compared
\* is the one the last task left.
C21_CacheIsOfCurrentContent ==
    (disk.kind # "none" /\ NoTaskInFlight /\ cache_diag # NoEntry) =>
        LET r == generate_diagnostic_report(disk)
        IN  /\ r.cache = "set"
            /\ cache_diag = JsonDumps(r.value)

\* C22: once delete_dataset has completed and every worker task that was in
\* flight has finished, neither the statistics nor the diagnostics cache
\* entry of the dataset exists, whatever the interleaving of the delete with
\* the two report tasks.
C22_NoEntryAfterDelete ==
    (disk.kind = "none" /\ NoTaskInFlight) =>
        /\ cache_diag = NoEntry
        /\ cache_stats = NoEntry

\* ----------------------------------------------------------- upload_dataset
MaxVersion == 2         \* highest version of a file there before the uploads
MaxUploads == 2         \* most requests of upload_dataset

\* file.filename of an upload
UploadNames == {"data.csv", "sales.csv"}

\* the processes that serve the API.  upload_dataset is a coroutine without an
\* await, so one process runs it from its first statement to its last before
\* it turns to another request; two processes run their requests side by side
Servers == {"server1", "server2"}

\* a path of the public directory: <<name, 0>> is the name itself and
\* <<name, N>> is f"{base} ({N}){ext}"
Paths == UploadNames \X (0..(MaxVersion + MaxUploads))

\* os.path.exists(path)
Exists(directory, path) == directory[path] # "none"

\* get_next_version_path
get_next_version_path(directory, filename) ==
    IF ~Exists(directory, <<filename, 0>>) THEN <<filename, 0>>
    ELSE <<filename,
           CHOOSE version \in 1..(MaxVersion + MaxUploads) :
               /\ ~Exists(directory, <<filename, version>>)
               /\ \A v \in 1..(version - 1) : Exists(directory, <<filename, v>>)>>

\* the public directory holds any files of the two names, up to MaxVersion
UploadInit ==
    /\ public \in { d \in [Paths -> {"none", "old"}] :
                      \A q \in Paths : q[2] > MaxVersion => d[q] = "none" }
    /\ uploads = <<>>
    /\ disk = NoFile
    /\ cache_diag = NoEntry
    /\ cache_stats = NoEntry
    /\ diag_pending = 0
    /\ stats_pending = 0
    /\ result = Pending
    /\ series = <<>>
    /\ detected = "unused"
    /\ categorical = NoRun
    /\ task = NoRun
    /\ diag_read = NoRun
    /\ stats_read = NoRun
    /\ response = NoRun

\* versioned_path = get_next_version_path(original_path), in a process that
\* is not inside another upload
UploadChoosePath ==
    /\ Len(uploads) < MaxUploads
    /\ \E filename \in UploadNames : \E server \in Servers :
          /\ \A i \in 1..Len(uploads) :
                uploads[i].server = server => uploads[i].pc = "stored"
          /\ uploads' = Append(uploads,
                               [filename |-> filename, server |-> server,
                                path |-> get_next_version_path(public, filename),
                                pc |-> "chosen", overwrote |-> FALSE])
    /\ UNCHANGED <<disk, cache_diag, cache_stats, diag_pending, stats_pending, result,
                   series, detected, categorical, task, diag_read, stats_read,
                   response, public>>

\* with open(versioned_path, "wb") as buffer: shutil.copyfileobj(...), and the
\* two tasks are queued
UploadStore ==
    /\ \E i \in 1..Len(uploads) :
          /\ uploads[i].pc = "chosen"
          /\ uploads' = [uploads EXCEPT ![i].pc = "stored",
                                        ![i].overwrote = Exists(public, uploads[i].path)]
          /\ public' = [public EXCEPT ![uploads[i].path] = "new"]
    /\ UNCHANGED <<disk, cache_diag, cache_stats, diag_pending, stats_pending, result,
                   series, detected, categorical, task, diag_read, stats_read,
                   response>>

UploadNext ==
    \/ UploadChoosePath
    \/ UploadStore

SpecUpload == UploadInit /\ [][UploadNext]_vars

\* C23: upload_dataset never overwrites an existing file:
\* get_next_version_path returns the original path when it is free and
\* otherwise the path with the smallest version N >= 1 that does not exist,
\* and two uploads of the same filename, under any interleaving, are stored
\* at two different paths.
ChosenAsSpecified(directory, upload) ==
    /\ ~Exists(directory, upload.path)
    /\ upload.path[1] = upload.filename
    /\ Exists(directory, <<upload.filename, 0>>) => upload.path[2] >= 1
    /\ \A v \in 1..(upload.path[2] - 1) : Exists(directory, <<upload.filename, v>>)

C23_UploadNeverOverwrites ==
    [][/\ Len(uploads') > Len(uploads) =>
            ChosenAsSpecified(public, uploads'[Len(uploads')])
       /\ \A i \in 1..Len(uploads) :
            (uploads[i].pc = "chosen" /\ uploads'[i].pc = "stored") =>
                /\ ~Exists(public, uploads[i].path)
                /\ \A j \in 1..Len(uploads) :
                      (j # i /\ uploads[j].pc = "stored"
                       /\ uploads[j].filename = uploads[i].filename) =>
                         uploads[j].path # uploads[i].path]_vars
====
